---- MODULE Spec2Model ----
(***************************************************************************)
(* Model of the AI image upscaler core:                                    *)
(*   - ImageProcessor.process_image_with_tiling and the part of            *)
(*     Upscaler.upscale_image that drives it   (specification SpecTiling)  *)
(*   - ModelDownloader.download_model          (specification SpecDownload)*)
(*   - ModelManager load / unload / download   (specification SpecManager) *)
(***************************************************************************)
EXTENDS Integers, Sequences, FiniteSets, TLC

\* ------------------------------------------------------------------------
\* Bounds of the model
\* ------------------------------------------------------------------------
MaxDim == 3
MaxTile == 3
MaxPad == 2
MaxScale == 2
MaxFail == 1
MaxBody == 2
MaxBatch == 3

\* ------------------------------------------------------------------------
\* Helpers
\* ------------------------------------------------------------------------
Min(a, b) == IF a < b THEN a ELSE b
Max(a, b) == IF a > b THEN a ELSE b

RECURSIVE Pow2(_)
Pow2(n) == IF n = 0 THEN 1 ELSE 2 * Pow2(n - 1)

None == "None"

\* ------------------------------------------------------------------------
\* float32 arithmetic of preprocess_image / postprocess_image.
\* A positive float32 is [m, e] with value m * 2^-e and 2^23 <= m < 2^24;
\* zero is [m |-> 0, e |-> 0].
\* ------------------------------------------------------------------------
F32Zero == [m |-> 0, e |-> 0]
F32One == [m |-> Pow2(23), e |-> 23]

\* smallest j with v * 2^j >= d
RECURSIVE LeadShift(_, _, _)
LeadShift(v, d, j) == IF v >= d THEN j ELSE LeadShift(2 * v, d, j + 1)

\* n further quotient bits of the binary long division by d
RECURSIVE DivBits(_, _, _, _)
DivBits(q, r, d, n) ==
    IF n = 0 THEN <<q, r>>
    ELSE IF 2 * r >= d THEN DivBits(2 * q + 1, 2 * r - d, d, n - 1)
         ELSE DivBits(2 * q, 2 * r, d, n - 1)

\* float32(v / d), round to nearest even, for 0 <= v < 2 * d
F32Div(v, d) ==
    IF v = 0 THEN F32Zero
    ELSE LET j == LeadShift(v, d, 0)
             qr == DivBits(1, v * Pow2(j) - d, d, 23)
             q == qr[1]
             r == qr[2]
             up == (2 * r > d) \/ (2 * r = d /\ q % 2 = 1)
             m == IF up THEN q + 1 ELSE q
         IN  IF m = Pow2(24) THEN [m |-> Pow2(23), e |-> j + 22]
             ELSE [m |-> m, e |-> j + 23]

\* np.clip(f, 0, 1) on a non-negative float32
F32Clip01(f) ==
    IF f.m = 0 THEN f
    ELSE IF f.e < 23 \/ (f.e = 23 /\ f.m > Pow2(23)) THEN F32One ELSE f

\* (f * 255.0).astype(np.uint8) for f in [0, 1]: the float32 product is
\* rounded to 24 bits (nearest even), the cast truncates toward zero.
F32Mul255ToU8(f) ==
    IF f.m = 0 THEN 0
    ELSE LET \* product below 2^31: drop 7 bits; otherwise drop 8 bits
             sh == IF f.m < 8421505 THEN 7 ELSE 8
             q == IF sh = 7 THEN (f.m * 255) \div 128
                  ELSE (f.m \div 256) * 255 + ((f.m % 256) * 255) \div 256
             rem == IF sh = 7 THEN (f.m * 255) % 128
                    ELSE ((f.m % 256) * 255) % 256
             half == Pow2(sh - 1)
             up == (rem > half) \/ (rem = half /\ q % 2 = 1)
             p == IF up THEN q + 1 ELSE q
         IN  (p \div Pow2(f.e - sh)) % 256

\* preprocess_image on one channel value: astype(float32) / 255.0
preprocess_bad(v) == F32Div(v, 256)
preprocess_image(v) == F32Div(v, 255)

\* postprocess_image on one channel value: clip to [0,1], * 255.0, uint8
postprocess_image(f) == F32Mul255ToU8(F32Clip01(f))

\* preprocess_image tabulated over the 8-bit channel values
Normalized == [v \in 0..255 |-> preprocess_image(v)]

\* the values that do not survive preprocess_image then postprocess_image
RoundTripLosses == {v \in 0..255 : postprocess_image(Normalized[v]) # v}

\* ------------------------------------------------------------------------
\* float64: int(a / b * 100) as Python computes it, for 0 <= a <= b, b > 0.
\* A 53 bit significand is held in three limbs <<m2, m1, m0>> of 18 bits
\* (the top one 17 bits); a / b is rounded to nearest even, the product
\* with 100 is rounded to nearest even, and int() truncates.
\* ------------------------------------------------------------------------
Limb == Pow2(18)

\* a * 2^s with the least s that makes it >= b
RECURSIVE F64Norm(_, _, _)
F64Norm(a, b, s) == IF a >= b THEN <<a, s>> ELSE F64Norm(2 * a, b, s + 1)

\* m + 1 on the three limbs
F64Inc(m) ==
    LET t0 == m[3] + 1
        t1 == m[2] + t0 \div Limb
        t2 == m[1] + t1 \div Limb
    IN  <<t2, t1 % Limb, t0 % Limb>>

\* a / b = m * 2^(-52 - s), rounded to nearest even; the 52 bits after the
\* leading one are produced nine at a time by long division (b < 2^22)
F64Quotient(a, b) ==
    LET n == F64Norm(a, b, 0)
        r0 == n[1] - b
        d1 == (r0 * 512) \div b
        r1 == (r0 * 512) % b
        d2 == (r1 * 512) \div b
        r2 == (r1 * 512) % b
        d3 == (r2 * 512) \div b
        r3 == (r2 * 512) % b
        d4 == (r3 * 512) \div b
        r4 == (r3 * 512) % b
        d5 == (r4 * 512) \div b
        r5 == (r4 * 512) % b
        d6 == (r5 * 128) \div b
        r6 == (r5 * 128) % b
        m == << d2 \div 4 + d1 * 128 + 65536,
                d4 \div 4 + d3 * 128 + (d2 % 4) * 65536,
                d6 + d5 * 128 + (d4 % 4) * 65536 >>
        guard == 2 * r6 >= b
        sticky == (2 * r6 - (IF guard THEN b ELSE 0)) > 0
        up == guard /\ (sticky \/ m[3] % 2 = 1)
        mr == IF up THEN F64Inc(m) ELSE m
    IN  IF mr[1] = Pow2(17)
        THEN [m |-> <<Pow2(16), 0, 0>>, s |-> n[2] - 1]
        ELSE [m |-> mr, s |-> n[2]]

\* m * 100, exact (the top limb grows to 24 bits)
F64Mul100(m) ==
    LET t0 == m[3] * 100
        t1 == m[2] * 100 + t0 \div Limb
        t2 == m[1] * 100 + t1 \div Limb
    IN  <<t2, t1 % Limb, t0 % Limb>>

\* int(a / b * 100): the quotient times 100, rounded to 53 bits, truncated
F64Percent(a, b) ==
    IF a = 0 THEN 0
    ELSE LET q == F64Quotient(a, b)
             p == F64Mul100(q.m)
             d == IF p[1] >= Pow2(23) THEN 7 ELSE 6
             low == p[3] % Pow2(d)
             half == Pow2(d - 1)
             odd == (p[3] \div Pow2(d)) % 2 = 1
             up == low > half \/ (low = half /\ odd)
             q0 == p[3] - low + (IF up THEN Pow2(d) ELSE 0)
             q1 == p[2] + q0 \div Limb
             q2 == p[1] + q1 \div Limb
             sh == 16 + q.s
         IN  IF sh > 24 THEN 0 ELSE q2 \div Pow2(sh)


\* ------------------------------------------------------------------------
\* State
\* ------------------------------------------------------------------------
VARIABLES
    \* ImageProcessor / Upscaler.upscale_image
    img,              \* input pixel grid, [<<row, col>> -> 0..255]
    w, h,             \* image width and height
    tile_size,        \* ImageProcessor.tile_size
    tile_padding,     \* ImageProcessor.tile_padding
    scale,            \* scale factor of the loaded model
    output,           \* output canvas, [<<row, col>> -> 0..255]
    writes,           \* number of placements that wrote each canvas pixel
    x, y,             \* loop variables of the tile loops
    tiles_processed,
    progress,         \* values passed to the tiling callback, in order
    visited,          \* tile origins <<x, y>> in the order they are visited
    failed,           \* origins of the tiles whose processing raised
    model_raised,     \* origins of the tiles on which the model itself raised
    pc,               \* position in upscale_image / process_image_with_tiling
    error,            \* kind of the exception that left the call, or None
    up_progress,      \* values passed to upscale_image's progress_callback
    up_error,         \* kind of the exception that left upscale_image, or None
    output_file,      \* the saved output image, or None
    \* ModelDownloader.download_model
    files,            \* models directory: [model name -> size in bytes, or NoFile]
    remote,           \* the resource behind model_url: [size, announced]
    dl_pc,            \* position in download_model
    dl_name,          \* model_name argument of the current / last call
    dl_cb,            \* whether a callback was passed
    attempt,          \* loop variable of the retry loop
    retry_delay,
    requests,         \* session.get calls made by the current / last call
    sleeps,           \* delays passed to time.sleep, in order
    total_size,
    downloaded,
    dl_callbacks,     \* progress values passed to the callback, in order
    dl_result,        \* path returned (the model name stands for it), or None
    dl_error,         \* kind of the exception that left the call, or None
    dl_cause,         \* the lower-level failure behind dl_error, or None
    caught,           \* the exception the retry loop caught in this attempt, or None
    \* ModelManager
    loaded_model,     \* the handle held, None, or Deleted (attribute removed)
    current_model_name,
    swinir_available, \* whether models.swinir_model can be imported
    building,         \* the local `model` of a _load_*_model call, or None
    loadnet,          \* the local `loadnet` of a _load_*_model call, or NoWeights
    m_pc,             \* position in the current ModelManager call
    m_op,             \* the current / last call: [op, name]
    m_before,         \* <<loaded_model, current_model_name>> when it began
    m_ret,            \* value returned by the last call, or None
    m_error,          \* kind of the exception that left the last call, or None
    m_cause,          \* the lower-level failure behind m_error, or None
    m_builds,         \* architectures constructed by the current / last call
    m_loads,          \* torch.load calls of the current / last call
    m_downloads,      \* downloader calls of the current / last call
    \* Upscaler.upscale_batch
    b_pc,             \* position in upscale_batch
    b_cb,             \* whether a progress_callback was passed
    total_images,
    b_i,              \* loop variable i
    output_paths,     \* indices of the images whose output path was appended
    successful_images,
    failed_images,
    batch_reports,    \* <<percent, index, total>> passed to the callback, in order
    b_result,         \* the list returned, or None
    b_error,          \* kind of the exception that left the call, or None
    \* ImageProcessor.load_image / save_image and the directories they touch
    fs_dirs,          \* the directories that exist (paths below the working directory)
    fs_readonly,      \* the directories nothing can be created in
    fs_files,         \* image path -> what the file holds, or NoContent
    ip_op,            \* the last call: [op, path]
    ip_before,        \* <<fs_dirs, fs_files>> when that call was made
    ip_result,        \* what it returned, or None
    ip_error,         \* kind of the exception it raised, or None
    ip_cause,         \* the exception behind ip_error, or None
    \* upscale_image calls made by upscale_batch, with the model manager
    u_pc,             \* position in the batch loop / in upscale_image
    u_n,              \* number of images
    u_i,              \* index of the current image
    u_name,           \* the model id the batch was called with
    u_before,         \* <<loaded_model, current_model_name, files>> when upscale_image was entered
    u_mcalls,         \* model manager calls made by the current upscale_image call
    u_error,          \* what the last upscale_image call raised, or None
    u_outputs,        \* indices of the images whose output file was written
    u_failed,         \* upscale_image calls that failed after the model was loaded
    u_load_failures,  \* load_model calls of the batch that raised
    u_handle,         \* the handle the first successful load_model returned
    u_builds,         \* model constructions attempted during the batch
    u_loads,          \* weight deserializations attempted during the batch
    u_downloads,      \* downloads started during the batch
    \* MainWindow and its worker threads
    enabled,            \* button -> isEnabled()
    current_image_path, \* the selected image, or None
    batch_image_paths,  \* the selected batch, a list
    combo_data,         \* model_combo.currentData()
    threads,            \* workers inside their Upscaler call: [kind, model_name]
    signals,            \* finished/error signals emitted and not yet delivered
    dialogs,            \* the modal dialogs open, innermost last
    last_handler        \* the last finished/error slot that ran, or None

tvars == <<img, w, h, tile_size, tile_padding, scale, output, writes, x, y,
           tiles_processed, progress, visited, failed, model_raised, pc, error,
           up_progress, up_error, output_file>>

dvars == <<files, remote, dl_pc, dl_name, dl_cb, attempt, retry_delay, requests,
           sleeps, total_size, downloaded, dl_callbacks, dl_result, dl_error,
           dl_cause, caught>>

mvars == <<loaded_model, current_model_name, swinir_available, building, loadnet, m_pc,
           m_op, m_before, m_ret, m_error, m_cause, m_builds, m_loads,
           m_downloads>>

bvars == <<b_pc, b_cb, total_images, b_i, output_paths, successful_images,
           failed_images, batch_reports, b_result, b_error>>

ivars == <<fs_dirs, fs_readonly, fs_files, ip_op, ip_before, ip_result, ip_error,
           ip_cause>>

uvars == <<u_pc, u_n, u_i, u_name, u_before, u_mcalls, u_error, u_outputs, u_failed,
           u_load_failures, u_handle, u_builds, u_loads, u_downloads>>

wvars == <<enabled, current_image_path, batch_image_paths, combo_data, threads,
           signals, dialogs, last_handler>>

vars == <<tvars, dvars, mvars, bvars, ivars, uvars, wvars>>

\* the state outside the tiling pipeline / the downloader / the manager
NonTiling == <<dvars, mvars, bvars, ivars, uvars, wvars>>
NonDownload == <<tvars, mvars, bvars, ivars, uvars, wvars>>
NonManager == <<tvars, bvars, ivars, uvars, wvars>>
NonBatch == <<tvars, dvars, mvars, ivars, uvars, wvars>>
NonFiles == <<tvars, dvars, mvars, bvars, uvars, wvars>>
NonPipeline == <<tvars, bvars, ivars, wvars>>
NonWindow == <<tvars, dvars, mvars, bvars, ivars, uvars>>

\* ------------------------------------------------------------------------
\* Inputs of the tiling pipeline
\* ------------------------------------------------------------------------
\* test images: pixel values walk through 0..255 from a base value
PixelBases == {0, 101}

TestImage(W, H, base) ==
    [p \in (0..(H - 1)) \X (0..(W - 1)) |->
        (base + 29 * (p[1] * W + p[2])) % 256]

\* the model stand-in: every input value is repeated scale x scale times
\* (for scale = 1 the identity), output cell <<r, c>> of an input tile
ModelOutput(tensor, s, r, c) == tensor[<<r \div s, c \div s>>]

\* ------------------------------------------------------------------------
\* process_image_with_tiling: the computations for the tile at (tx, ty)
\* ------------------------------------------------------------------------
output_h == h * scale
output_w == w * scale

num_tiles_x == (w + tile_size - 1) \div tile_size
num_tiles_y == (h + tile_size - 1) \div tile_size
total_tiles == num_tiles_x * num_tiles_y

tile_x1(tx) == Max(0, tx - tile_padding)
tile_y1(ty) == Max(0, ty - tile_padding)
tile_x2(tx) == Min(w, tx + tile_size + tile_padding)
tile_y2(ty) == Min(h, ty + tile_size + tile_padding)

input_tile_w(tx) == tile_x2(tx) - tile_x1(tx)
input_tile_h(ty) == tile_y2(ty) - tile_y1(ty)

non_pad_x1(tx) == Max(0, tx - tile_x1(tx))
non_pad_y1(ty) == Max(0, ty - tile_y1(ty))
non_pad_x2_bad(tx) == Min(input_tile_w(tx), tile_size)
non_pad_x2(tx) == Min(input_tile_w(tx), non_pad_x1(tx) + tile_size)
non_pad_y2(ty) == Min(input_tile_h(ty), non_pad_y1(ty) + tile_size)

out_tile_x1(tx) == non_pad_x1(tx) * scale
out_tile_y1(ty) == non_pad_y1(ty) * scale
out_tile_x2(tx) == non_pad_x2(tx) * scale
out_tile_y2(ty) == non_pad_y2(ty) * scale

out_x1(tx) == tx * scale
out_y1(ty) == ty * scale
out_x2_bad(tx) == Min(output_w, out_x1(tx) + (tile_size + tile_padding) * scale)
out_x2(tx) == Min(output_w, out_x1(tx) + tile_size * scale)
out_y2(ty) == Min(output_h, out_y1(ty) + tile_size * scale)

\* a[lo:hi] on an axis of length n: the indices the slice selects
SliceLo(lo, n) == Min(lo, n)
SliceLen(lo, hi, n) == Max(0, Min(hi, n) - Min(lo, n))

\* output_tile = postprocess(model(preprocess(tile))), cell <<r, c>>
output_tile(tx, ty, r, c) ==
    LET tensor == [q \in (0..(input_tile_h(ty) - 1)) \X (0..(input_tile_w(tx) - 1)) |->
                      Normalized[img[<<tile_y1(ty) + q[1], tile_x1(tx) + q[2]>>]]]
    IN  postprocess_image(ModelOutput(tensor, scale, r, c))

\* shape of tile_part = output_tile[out_tile_y1:out_tile_y2, out_tile_x1:out_tile_x2]
tile_part_h(ty) == SliceLen(out_tile_y1(ty), out_tile_y2(ty), input_tile_h(ty) * scale)
tile_part_w(tx) == SliceLen(out_tile_x1(tx), out_tile_x2(tx), input_tile_w(tx) * scale)

\* shape of the target output[out_y1:out_y2, out_x1:out_x2]
dest_h(ty) == SliceLen(out_y1(ty), out_y2(ty), output_h)
dest_w(tx) == SliceLen(out_x1(tx), out_x2(tx), output_w)

\* canvas pixel p lies in the target slice
InDest(tx, ty, p) ==
    /\ p[1] >= SliceLo(out_y1(ty), output_h)
    /\ p[1] < SliceLo(out_y1(ty), output_h) + dest_h(ty)
    /\ p[2] >= SliceLo(out_x1(tx), output_w)
    /\ p[2] < SliceLo(out_x1(tx), output_w) + dest_w(tx)

\* numpy accepts the assignment when every axis of tile_part has the
\* length of the target axis or length 1 (broadcast)
PlacementFits(tx, ty) ==
    /\ tile_part_h(ty) = dest_h(ty) \/ tile_part_h(ty) = 1
    /\ tile_part_w(tx) = dest_w(tx) \/ tile_part_w(tx) = 1

\* value the assignment stores at canvas pixel p of the target slice
PlacedValue(tx, ty, p) ==
    LET dr == p[1] - SliceLo(out_y1(ty), output_h)
        dc == p[2] - SliceLo(out_x1(tx), output_w)
        sr == IF tile_part_h(ty) = dest_h(ty) THEN dr ELSE 0
        sc == IF tile_part_w(tx) = dest_w(tx) THEN dc ELSE 0
    IN  output_tile(tx, ty, out_tile_y1(ty) + sr, out_tile_x1(tx) + sc)

\* range(0, w, tile_size) x range(0, h, tile_size): the position after (tx, ty)
LastInRowInclusive(tx) == tx + tile_size > w
LastInRow(tx) == tx + tile_size >= w
LastRow(ty) == ty + tile_size >= h
NextX(tx) == IF LastInRow(tx) THEN 0 ELSE tx + tile_size
NextY(tx, ty) == IF LastInRow(tx) THEN ty + tile_size ELSE ty

\* int(tiles_processed / total_tiles * 100)
TileProgressRounded(n) == (n * 100 + total_tiles \div 2) \div total_tiles
TileProgress(n) == F64Percent(n, total_tiles)

\* progress_wrapper of upscale_image: 10 + int(progress * 0.8); the float64
\* product truncates to floor(4 * progress / 5) for every progress in 0..100
adjusted_progress_unscaled(p) == 10 + p
adjusted_progress(p) == 10 + (4 * p) \div 5

\* ------------------------------------------------------------------------
\* Actions of upscale_image / process_image_with_tiling
\* ------------------------------------------------------------------------
InitTiling ==
    /\ w \in 1..MaxDim
    /\ h \in 1..MaxDim
    /\ tile_size \in 1..MaxTile
    /\ tile_padding \in 0..MaxPad
    /\ scale \in 1..MaxScale
    /\ \E base \in PixelBases : img = TestImage(w, h, base)
    /\ output = << >>
    /\ writes = << >>
    /\ x = 0
    /\ y = 0
    /\ tiles_processed = 0
    /\ progress = << >>
    /\ visited = << >>
    /\ failed = {}
    /\ model_raised = {}
    /\ pc = "call"
    /\ error = None
    /\ up_progress = << >>
    /\ up_error = None
    /\ output_file = None

\* upscale_image reports 10 after the image is loaded and calls
\* process_image_with_tiling, which allocates the zero canvas
TilingBegin ==
    /\ pc = "call"
    /\ up_progress' = Append(up_progress, 10)
    /\ output' = [p \in (0..(output_h - 1)) \X (0..(output_w - 1)) |-> 0]
    /\ writes' = [p \in (0..(output_h - 1)) \X (0..(output_w - 1)) |-> 0]
    /\ x' = 0
    /\ y' = 0
    /\ tiles_processed' = 0
    /\ pc' = "tile"
    /\ UNCHANGED <<img, w, h, tile_size, tile_padding, scale, progress,
                   visited, failed, model_raised, error, up_error, output_file>>
    /\ UNCHANGED NonTiling

\* the statements after the inner try: count the tile, report, move on
AfterTile ==
    /\ tiles_processed' = tiles_processed + 1
    /\ progress' = Append(progress, TileProgress(tiles_processed + 1))
    /\ up_progress' = Append(up_progress,
                             adjusted_progress(TileProgress(tiles_processed + 1)))
    /\ x' = NextX(x)
    /\ y' = NextY(x, y)
    /\ pc' = IF LastInRow(x) /\ LastRow(y) THEN "tiling_returned" ELSE "tile"

\* a tile is extracted, run through the model and placed
PlaceTile ==
    /\ pc = "tile"
    /\ PlacementFits(x, y)
    /\ visited' = Append(visited, <<x, y>>)
    /\ output' = [p \in DOMAIN output |->
                    IF InDest(x, y, p) THEN PlacedValue(x, y, p)
                    ELSE output[p]]
    /\ writes' = [p \in DOMAIN writes |->
                    IF InDest(x, y, p) THEN writes[p] + 1 ELSE writes[p]]
    /\ AfterTile
    /\ UNCHANGED <<img, w, h, tile_size, tile_padding, scale, failed,
                   model_raised, error, up_error, output_file>>
    /\ UNCHANGED NonTiling

\* processing of the tile raises: the model (or the conversion around it)
\* raises, or numpy rejects the placement
TileRaises(cause) ==
    \/ cause = "model" /\ Cardinality(model_raised) < MaxFail
    \/ cause = "placement" /\ ~PlacementFits(x, y)

RaiseCauses == {"model", "placement"}

\* ... on the first tile: re-raised, wrapped in ImageProcessingError
ReraiseAlways == TRUE
ReraiseNever == FALSE
ReraiseFirst == tiles_processed = 0

FirstTileRaises ==
    /\ pc = "tile"
    /\ ReraiseFirst
    /\ \E cause \in RaiseCauses :
          /\ TileRaises(cause)
          /\ model_raised' = IF cause = "model" THEN model_raised \cup {<<x, y>>}
                              ELSE model_raised
    /\ visited' = Append(visited, <<x, y>>)
    /\ failed' = failed \cup {<<x, y>>}
    /\ error' = "ImageProcessingError"
    /\ pc' = "tiling_raised"
    /\ UNCHANGED <<img, w, h, tile_size, tile_padding, scale, output, writes,
                   x, y, tiles_processed, progress, up_progress, up_error,
                   output_file>>
    /\ UNCHANGED NonTiling

\* ... on a later tile: logged, the loop goes on
LaterTileRaises ==
    /\ pc = "tile"
    /\ ~ReraiseFirst
    /\ \E cause \in RaiseCauses :
          /\ TileRaises(cause)
          /\ model_raised' = IF cause = "model" THEN model_raised \cup {<<x, y>>}
                              ELSE model_raised
    /\ visited' = Append(visited, <<x, y>>)
    /\ failed' = failed \cup {<<x, y>>}
    /\ AfterTile
    /\ UNCHANGED <<img, w, h, tile_size, tile_padding, scale, output, writes,
                   error, up_error, output_file>>
    /\ UNCHANGED NonTiling

\* upscale_image after the canvas is returned: save_image, then report 100
SaveOk ==
    /\ pc = "tiling_returned"
    /\ output_file' = output
    /\ up_progress' = Append(up_progress, 100)
    /\ pc' = "done"
    /\ UNCHANGED <<img, w, h, tile_size, tile_padding, scale, output, writes,
                   x, y, tiles_processed, progress, visited, failed,
                   model_raised, error,
                   up_error>>
    /\ UNCHANGED NonTiling

\* save_image raises ImageProcessingError, upscale_image wraps it
SaveFails ==
    /\ pc = "tiling_returned"
    /\ up_error' = "UpscalerError"
    /\ pc' = "failed"
    /\ UNCHANGED <<img, w, h, tile_size, tile_padding, scale, output, writes,
                   x, y, tiles_processed, progress, visited, failed,
                   model_raised, error,
                   up_progress, output_file>>
    /\ UNCHANGED NonTiling

\* upscale_image's handler for the error raised by the tiling
UpscaleFails ==
    /\ pc = "tiling_raised"
    /\ up_error' = "UpscalerError"
    /\ pc' = "failed"
    /\ UNCHANGED <<img, w, h, tile_size, tile_padding, scale, output, writes,
                   x, y, tiles_processed, progress, visited, failed,
                   model_raised, error,
                   up_progress, output_file>>
    /\ UNCHANGED NonTiling

NextTiling ==
    \/ TilingBegin
    \/ PlaceTile
    \/ FirstTileRaises
    \/ LaterTileRaises
    \/ SaveOk
    \/ SaveFails
    \/ UpscaleFails

\* ------------------------------------------------------------------------
\* The tile loop on images of realistic size.  The loop, the rectangles of
\* every tile, the shape check of the placement, the failure handling and
\* the progress reports are those of the actions above; the pixel arrays
\* are not represented (img, output and writes stay empty).
\* ------------------------------------------------------------------------
GridWidths == {1, 255, 256, 257, 600}
GridHeights == {1, 256, 400}
GridTileSizes == {256, 512}
GridPaddings == {0, 16, 32, 300}
GridScales == {1, 2, 4}

\* an image of ten by five tiles
LargeImage == [w |-> 2560, h |-> 1280, tile_size |-> 256, tile_padding |-> 16,
               scale |-> 4]

InitGrid ==
    /\ \/ /\ w \in GridWidths
          /\ h \in GridHeights
          /\ tile_size \in GridTileSizes
          /\ tile_padding \in GridPaddings
          /\ scale \in GridScales
       \/ /\ w = LargeImage.w
          /\ h = LargeImage.h
          /\ tile_size = LargeImage.tile_size
          /\ tile_padding = LargeImage.tile_padding
          /\ scale = LargeImage.scale
    /\ img = << >>
    /\ output = << >>
    /\ writes = << >>
    /\ x = 0
    /\ y = 0
    /\ tiles_processed = 0
    /\ progress = << >>
    /\ visited = << >>
    /\ failed = {}
    /\ model_raised = {}
    /\ pc = "call"
    /\ error = None
    /\ up_progress = << >>
    /\ up_error = None
    /\ output_file = None

GridBegin ==
    /\ pc = "call"
    /\ img = << >>
    /\ up_progress' = Append(up_progress, 10)
    /\ x' = 0
    /\ y' = 0
    /\ tiles_processed' = 0
    /\ pc' = "tile"
    /\ UNCHANGED <<img, w, h, tile_size, tile_padding, scale, output, writes,
                   progress, visited, failed, model_raised, error, up_error,
                   output_file>>
    /\ UNCHANGED NonTiling

NextGrid ==
    \/ GridBegin
    \/ PlaceTile
    \/ FirstTileRaises
    \/ LaterTileRaises
    \/ SaveOk
    \/ SaveFails
    \/ UpscaleFails

\* ------------------------------------------------------------------------
\* ModelDownloader.download_model
\* ------------------------------------------------------------------------
NoFile == -1

\* model ids: the default configuration's Real-ESRGAN and SwinIR entries, a
\* configured id of neither family, and an id that is not configured
ModelNames == {"realesrgan-x4plus", "realesrgan-x4plus-anime", "swinir-large",
               "custom-net", "nonexistent_model"}

retries == 3
initial_retry_delay == 2
block_size == 8192

\* sizes of the remote file: whole blocks and one byte short of them, and a
\* body of fifty blocks
BodySizes == {k * block_size - r : k \in 1..MaxBody, r \in {0, 1}}
                 \cup {50 * block_size}

\* the exceptions session.get / raise_for_status raise (all of them are
\* requests.exceptions.RequestException)
RequestFailures == {"HTTPError4xx", "HTTPError5xx", "ConnectionError", "Timeout"}

\* the exceptions raised while the body is read and written
StreamFailures == {"ConnectionError", "Timeout", "OSError"}

Callable == dl_pc \in {"idle", "returned", "raised"}

\* os.path.exists(model_path) / os.remove(model_path) of the except clauses
KeepPartial(f, name) == f
RemovePartial(f, name) == [f EXCEPT ![name] = NoFile]

\* every except clause of download_model: remove the partial file, raise
\* NetworkError with the original exception as its cause
DlRaise(kind) ==
    /\ files' = RemovePartial(files, dl_name)
    /\ dl_error' = "NetworkError"
    /\ dl_cause' = kind
    /\ dl_pc' = "raised"

InitDownload ==
    /\ remote \in {[size |-> n, announced |-> a] :
                      n \in BodySizes, a \in {0} \cup BodySizes}
    /\ remote.announced \in {0, remote.size}
    /\ files \in [ModelNames -> {NoFile, remote.size}]
    /\ dl_pc = "idle"
    /\ dl_name = None
    /\ dl_cb = FALSE
    /\ attempt = 0
    /\ retry_delay = initial_retry_delay
    /\ requests = 0
    /\ sleeps = << >>
    /\ total_size = 0
    /\ downloaded = 0
    /\ dl_callbacks = << >>
    /\ dl_result = None
    /\ dl_error = None
    /\ dl_cause = None
    /\ caught = None

\* callback(model_name, 100) of the early return, when a callback is given
ExistingReportNone(cb) == << >>
ExistingReport(cb) == IF cb THEN <<100>> ELSE << >>

\* the file is already there: report 100 and return its path
DownloadExisting(name, cb) ==
    /\ Callable
    /\ files[name] # NoFile
    /\ dl_name' = name
    /\ dl_cb' = cb
    /\ dl_callbacks' = ExistingReport(cb)
    /\ dl_result' = name
    /\ dl_error' = None
    /\ dl_cause' = None
    /\ caught' = None
    /\ dl_pc' = "returned"
    /\ attempt' = 0
    /\ retry_delay' = initial_retry_delay
    /\ requests' = 0
    /\ sleeps' = << >>
    /\ total_size' = 0
    /\ downloaded' = 0
    /\ UNCHANGED <<files, remote>>

\* the file is missing: enter the retry loop
DownloadBegin(name, cb) ==
    /\ Callable
    /\ files[name] = NoFile
    /\ dl_name' = name
    /\ dl_cb' = cb
    /\ dl_callbacks' = << >>
    /\ dl_result' = None
    /\ dl_error' = None
    /\ dl_cause' = None
    /\ caught' = None
    /\ dl_pc' = "get"
    /\ attempt' = 0
    /\ retry_delay' = initial_retry_delay
    /\ requests' = 0
    /\ sleeps' = << >>
    /\ total_size' = 0
    /\ downloaded' = 0
    /\ UNCHANGED <<files, remote>>

\* session.get and raise_for_status succeed: leave the loop
AttemptOk ==
    /\ dl_pc = "get"
    /\ requests' = requests + 1
    /\ dl_pc' = "open"
    /\ caught' = None
    /\ UNCHANGED <<files, remote, dl_name, dl_cb, attempt, retry_delay, sleeps,
                   total_size, downloaded, dl_callbacks, dl_result, dl_error,
                   dl_cause>>
    /\ UNCHANGED NonDownload

\* retry_delay *= 2
BackoffConstant(d) == d
Backoff(d) == d * 2

\* the attempt raises and is not the last one: sleep, double the delay
AttemptFailsRetry ==
    /\ dl_pc = "get"
    /\ attempt < retries - 1
    /\ requests' = requests + 1
    /\ \E kind \in RequestFailures : caught' = kind
    /\ sleeps' = Append(sleeps, retry_delay)
    /\ retry_delay' = Backoff(retry_delay)
    /\ attempt' = attempt + 1
    /\ UNCHANGED <<files, remote, dl_pc, dl_name, dl_cb, total_size, downloaded,
                   dl_callbacks, dl_result, dl_error, dl_cause>>
    /\ UNCHANGED NonDownload

\* the last attempt raises: the exception reaches the outer except clauses
AttemptFailsFinal ==
    /\ dl_pc = "get"
    /\ ~(attempt < retries - 1)
    /\ requests' = requests + 1
    /\ \E kind \in RequestFailures : DlRaise(kind) /\ caught' = kind
    /\ UNCHANGED <<remote, dl_name, dl_cb, attempt, retry_delay, sleeps,
                   total_size, downloaded, dl_callbacks, dl_result>>
    /\ UNCHANGED NonDownload

\* the content-length header is read and the target file is opened for
\* writing, which creates it empty
OpenTarget ==
    /\ dl_pc = "open"
    /\ total_size' = remote.announced
    /\ files' = [files EXCEPT ![dl_name] = 0]
    /\ downloaded' = 0
    /\ dl_pc' = "stream"
    /\ UNCHANGED <<remote, dl_name, dl_cb, attempt, retry_delay, requests, sleeps,
                   dl_callbacks, dl_result, dl_error, dl_cause,
                   caught>>
    /\ UNCHANGED NonDownload

\* open() raises
OpenFails ==
    /\ dl_pc = "open"
    /\ DlRaise("OSError")
    /\ UNCHANGED <<remote, dl_name, dl_cb, attempt, retry_delay, requests, sleeps,
                   total_size, downloaded, dl_callbacks, dl_result, caught>>
    /\ UNCHANGED NonDownload

\* int(downloaded / total_size * 100)
DownloadProgress(d, total) == F64Percent(d, total)

\* f.write(data) on the open file: the data is appended
WrittenOver(size, len) == len
Written(size, len) == size + len

\* one iteration of the iter_content loop
WriteChunk ==
    /\ dl_pc = "stream"
    /\ downloaded < remote.size
    /\ LET len == Min(block_size, remote.size - downloaded)
       IN  /\ files' = [files EXCEPT ![dl_name] = Written(files[dl_name], len)]
           /\ downloaded' = downloaded + len
           /\ dl_callbacks' =
                  IF dl_cb /\ total_size > 0
                  THEN Append(dl_callbacks, DownloadProgress(downloaded + len, total_size))
                  ELSE dl_callbacks
    /\ UNCHANGED <<remote, dl_pc, dl_name, dl_cb, attempt, retry_delay, requests,
                   sleeps, total_size, dl_result, dl_error, dl_cause,
                   caught>>
    /\ UNCHANGED NonDownload

\* reading or writing a chunk raises
StreamFails ==
    /\ dl_pc = "stream"
    /\ \E kind \in StreamFailures : DlRaise(kind)
    /\ UNCHANGED <<remote, dl_name, dl_cb, attempt, retry_delay, requests, sleeps,
                   total_size, downloaded, dl_callbacks, dl_result, caught>>
    /\ UNCHANGED NonDownload

\* the body is exhausted: final progress update, return the path
StreamDone ==
    /\ dl_pc = "stream"
    /\ downloaded = remote.size
    /\ dl_callbacks' = IF dl_cb THEN Append(dl_callbacks, 100) ELSE dl_callbacks
    /\ dl_result' = dl_name
    /\ dl_pc' = "returned"
    /\ UNCHANGED <<files, remote, dl_name, dl_cb, attempt, retry_delay, requests,
                   sleeps, total_size, downloaded, dl_error, dl_cause,
                   caught>>
    /\ UNCHANGED NonDownload

\* a caller invokes ModelDownloader.download_model directly
CallDownloadExisting ==
    /\ \E name \in ModelNames, cb \in BOOLEAN : DownloadExisting(name, cb)
    /\ UNCHANGED NonDownload

CallDownloadBegin ==
    /\ \E name \in ModelNames, cb \in BOOLEAN : DownloadBegin(name, cb)
    /\ UNCHANGED NonDownload

DownloadStep ==
    \/ AttemptOk
    \/ AttemptFailsRetry
    \/ AttemptFailsFinal
    \/ OpenTarget
    \/ OpenFails
    \/ WriteChunk
    \/ StreamFails
    \/ StreamDone

NextDownload ==
    \/ CallDownloadExisting
    \/ CallDownloadBegin
    \/ DownloadStep

\* ------------------------------------------------------------------------
\* ModelManager
\* ------------------------------------------------------------------------
\* self.loaded_model: no handle (None), the attribute removed by `del`, or
\* a handle: the model it was built for and the weight entry it was given
NoHandle == [model |-> None, weights |-> None]
Deleted == [model |-> "Deleted", weights |-> None]

\* config.get_model_info(name) finds an entry
Configured == ModelNames \ {"nonexistent_model"}

\* the entry has a "url"
HasUrl == Configured \ {"custom-net"}

\* "realesrgan" in model_name.lower() / "swinir" in model_name.lower()
RealESRGANNames == {"realesrgan-x4plus", "realesrgan-x4plus-anime"}
SwinIRNames == {"swinir-large"}

\* what torch.load finds in the weight file: whether it unpickles, whether
\* it holds the 'params_ema' and the 'params' entries, and whether the
\* entry handed to load_state_dict(strict=True) matches the architecture
WeightFiles == [readable : BOOLEAN, ema : BOOLEAN, params : BOOLEAN, fits : BOOLEAN]

\* no weight file has been read
NoWeights == [readable |-> FALSE, ema |-> FALSE, params |-> FALSE, fits |-> FALSE]

\* the key whose entry is loaded
KeyName(name, f) ==
    IF name \in RealESRGANNames
    THEN (IF f.ema THEN "params_ema" ELSE "params")
    ELSE "params"

HasKey(f, key) == IF key = "params_ema" THEN f.ema ELSE f.params

\* torch.load, loadnet[keyname], load_state_dict and .to(device) all succeed
WeightsLoad(name, f, device_ok) ==
    /\ f.readable
    /\ HasKey(f, KeyName(name, f))
    /\ f.fits
    /\ device_ok

Held == loaded_model \notin {NoHandle, Deleted}

\* handles alive: the one the manager holds and the one under construction
ResidentHandles ==
    (IF Held THEN 1 ELSE 0) + (IF building # NoHandle THEN 1 ELSE 0)

InitManager ==
    /\ loaded_model = NoHandle
    /\ current_model_name = None
    /\ swinir_available \in BOOLEAN
    /\ building = NoHandle
    /\ loadnet = NoWeights
    /\ m_pc = "idle"
    /\ m_op = [op |-> None, name |-> None]
    /\ m_before = <<NoHandle, None>>
    /\ m_ret = NoHandle
    /\ m_error = None
    /\ m_cause = None
    /\ m_builds = 0
    /\ m_loads = 0
    /\ m_downloads = 0

\* a call enters: what every ModelManager call starts from
Enter(op, name) ==
    /\ m_pc = "idle"
    /\ m_op' = [op |-> op, name |-> name]
    /\ m_before' = <<loaded_model, current_model_name>>
    /\ m_builds' = 0
    /\ m_loads' = 0
    /\ m_downloads' = 0

\* a call leaves by raising / by returning
Raise(kind, cause) ==
    /\ m_error' = kind
    /\ m_cause' = cause
    /\ m_ret' = NoHandle
    /\ m_pc' = "idle"

Return(value) ==
    /\ m_error' = None
    /\ m_cause' = None
    /\ m_ret' = value
    /\ m_pc' = "idle"

\* ---- load_model ----

\* the early return: the requested model is the one loaded
AlreadyLoadedNever(name) == FALSE
AlreadyLoaded(name) == Held /\ current_model_name = name

LoadAlreadyLoadedCall(name) ==
    /\ Enter("load", name)
    /\ loaded_model # Deleted
    /\ AlreadyLoaded(name)
    /\ Return(loaded_model)
    /\ UNCHANGED <<loaded_model, current_model_name, swinir_available, loadnet, building>>
    /\ UNCHANGED dvars

LoadAlreadyLoaded ==
    /\ \E name \in ModelNames : LoadAlreadyLoadedCall(name)
    /\ UNCHANGED NonManager

\* self.loaded_model no longer exists: AttributeError, which the
\* exception_handler decorator turns into UpscalerError
LoadAttributeErrorCall(name) ==
    /\ Enter("load", name)
    /\ loaded_model = Deleted
    /\ Raise("UpscalerError", "AttributeError")
    /\ UNCHANGED <<loaded_model, current_model_name, swinir_available, loadnet, building>>
    /\ UNCHANGED dvars

LoadAttributeError ==
    /\ \E name \in ModelNames : LoadAttributeErrorCall(name)
    /\ UNCHANGED NonManager

\* another model is loaded: it is unloaded first
MustUnloadNever == FALSE
MustUnload == Held

LoadBeginCall(name) ==
    /\ Enter("load", name)
    /\ loaded_model # Deleted
    /\ ~AlreadyLoaded(name)
    /\ m_pc' = IF MustUnload THEN "load_unload" ELSE "load_info"
    /\ m_ret' = NoHandle
    /\ m_error' = None
    /\ m_cause' = None
    /\ UNCHANGED <<loaded_model, current_model_name, swinir_available, loadnet, building>>
    /\ UNCHANGED dvars

LoadBegin ==
    /\ \E name \in ModelNames : LoadBeginCall(name)
    /\ UNCHANGED NonManager

\* unload_model called by load_model
LoadUnloadOk ==
    /\ m_pc = "load_unload"
    /\ loaded_model' = NoHandle
    /\ current_model_name' = None
    /\ m_pc' = "load_info"
    /\ UNCHANGED <<swinir_available, loadnet, building, m_op, m_before, m_ret, m_error,
                   m_cause, m_builds, m_loads, m_downloads>>
    /\ UNCHANGED <<dvars, NonManager>>

\* torch.cuda.empty_cache() raises after `del self.loaded_model`
LoadUnloadFails ==
    /\ m_pc = "load_unload"
    /\ loaded_model' = Deleted
    /\ Raise("ModelError", "RuntimeError")
    /\ UNCHANGED <<current_model_name, swinir_available, loadnet, building, m_op, m_before,
                   m_builds, m_loads, m_downloads>>
    /\ UNCHANGED <<dvars, NonManager>>

LoadUnknown ==
    /\ m_pc = "load_info"
    /\ m_op.name \notin Configured
    /\ Raise("ModelError", None)
    /\ UNCHANGED <<loaded_model, current_model_name, swinir_available, loadnet, building,
                   m_op, m_before, m_builds, m_loads, m_downloads>>
    /\ UNCHANGED <<dvars, NonManager>>

\* os.path.exists(model_path): nothing to download
LoadFileThere ==
    /\ m_pc = "load_info"
    /\ m_op.name \in Configured
    /\ files[m_op.name] # NoFile
    /\ m_pc' = "load_build"
    /\ UNCHANGED <<loaded_model, current_model_name, swinir_available, loadnet, building,
                   m_op, m_before, m_ret, m_error, m_cause, m_builds, m_loads,
                   m_downloads>>
    /\ UNCHANGED <<dvars, NonManager>>

\* self.download_model(model_name): the entry has no URL
LoadDownloadNoUrl ==
    /\ m_pc = "load_info"
    /\ m_op.name \in Configured
    /\ files[m_op.name] = NoFile
    /\ m_op.name \notin HasUrl
    /\ Raise("ModelError", None)
    /\ UNCHANGED <<loaded_model, current_model_name, swinir_available, loadnet, building,
                   m_op, m_before, m_builds, m_loads, m_downloads>>
    /\ UNCHANGED <<dvars, NonManager>>

\* self.download_model(model_name) hands over to the downloader, no callback
LoadStartsDownload ==
    /\ m_pc = "load_info"
    /\ m_op.name \in HasUrl
    /\ files[m_op.name] = NoFile
    /\ DownloadBegin(m_op.name, FALSE)
    /\ m_downloads' = m_downloads + 1
    /\ m_pc' = "load_download"
    /\ UNCHANGED <<loaded_model, current_model_name, swinir_available, loadnet, building,
                   m_op, m_before, m_ret, m_error, m_cause, m_builds, m_loads>>
    /\ UNCHANGED NonManager

LoadDownloadFailed ==
    /\ m_pc = "load_download"
    /\ dl_pc = "raised"
    /\ Raise("ModelError", dl_error)
    /\ UNCHANGED <<loaded_model, current_model_name, swinir_available, loadnet, building,
                   m_op, m_before, m_builds, m_loads, m_downloads>>
    /\ UNCHANGED <<dvars, NonManager>>

LoadDownloadDone ==
    /\ m_pc = "load_download"
    /\ dl_pc = "returned"
    /\ m_pc' = "load_build"
    /\ UNCHANGED <<loaded_model, current_model_name, swinir_available, loadnet, building,
                   m_op, m_before, m_ret, m_error, m_cause, m_builds, m_loads,
                   m_downloads>>
    /\ UNCHANGED <<dvars, NonManager>>

\* neither "realesrgan" nor "swinir" in the name
LoadUnsupported ==
    /\ m_pc = "load_build"
    /\ m_op.name \notin RealESRGANNames \cup SwinIRNames
    /\ Raise("ModelError", "ModelError")
    /\ UNCHANGED <<loaded_model, current_model_name, swinir_available, loadnet, building,
                   m_op, m_before, m_builds, m_loads, m_downloads>>
    /\ UNCHANGED <<dvars, NonManager>>

\* from models.swinir_model import SwinIR fails
LoadSwinIRImportFails ==
    /\ m_pc = "load_build"
    /\ m_op.name \in SwinIRNames
    /\ ~swinir_available
    /\ Raise("ModelError", "ModelError")
    /\ UNCHANGED <<loaded_model, current_model_name, swinir_available, loadnet, building,
                   m_op, m_before, m_builds, m_loads, m_downloads>>
    /\ UNCHANGED <<dvars, NonManager>>

\* the architecture is constructed (RRDBNet(...) / SwinIR(...))
LoadConstruct ==
    /\ m_pc = "load_build"
    /\ \/ m_op.name \in RealESRGANNames
       \/ m_op.name \in SwinIRNames /\ swinir_available
    /\ building' = [model |-> m_op.name, weights |-> None]
    /\ m_builds' = m_builds + 1
    /\ m_pc' = "load_weights"
    /\ UNCHANGED <<loaded_model, current_model_name, swinir_available, loadnet, m_op,
                   m_before, m_ret, m_error, m_cause, m_loads, m_downloads>>
    /\ UNCHANGED <<dvars, NonManager>>

\* torch.load, load_state_dict(strict=True), eval, to(device)
LoadWeightsOk ==
    /\ m_pc = "load_weights"
    /\ \E f \in WeightFiles :
          /\ WeightsLoad(m_op.name, f, TRUE)
          /\ loadnet' = f
          /\ building' = [building EXCEPT !.weights = KeyName(m_op.name, f)]
    /\ m_loads' = m_loads + 1
    /\ m_pc' = "load_store"
    /\ UNCHANGED <<loaded_model, current_model_name, swinir_available, m_op,
                   m_before, m_ret, m_error, m_cause, m_builds, m_downloads>>
    /\ UNCHANGED <<dvars, NonManager>>

\* one of them raises: the local model is dropped, ModelError is raised
LoadWeightsFail ==
    /\ m_pc = "load_weights"
    /\ \E f \in WeightFiles, device_ok \in BOOLEAN :
          /\ ~WeightsLoad(m_op.name, f, device_ok)
          /\ Raise("ModelError",
                   IF ~f.readable THEN "UnpicklingError"
                   ELSE IF ~HasKey(f, KeyName(m_op.name, f)) THEN "KeyError"
                   ELSE "RuntimeError")
    /\ building' = NoHandle
    /\ m_loads' = m_loads + 1
    /\ UNCHANGED <<loaded_model, current_model_name, swinir_available, loadnet, m_op,
                   m_before, m_builds, m_downloads>>
    /\ UNCHANGED <<dvars, NonManager>>

\* the handle is stored, the parameter count is logged, the model returned
LoadStoreReturn ==
    /\ m_pc = "load_store"
    /\ loaded_model' = building
    /\ current_model_name' = m_op.name
    /\ building' = NoHandle
    /\ loadnet' = NoWeights
    /\ Return(building)
    /\ UNCHANGED <<swinir_available, m_op, m_before, m_builds, m_loads, m_downloads>>
    /\ UNCHANGED <<dvars, NonManager>>

\* the handle is stored, then the statements that follow in the try block
\* raise: the except clause raises ModelError and resets nothing
LoadStoreThenRaise ==
    /\ m_pc = "load_store"
    /\ loaded_model' = building
    /\ current_model_name' = m_op.name
    /\ building' = NoHandle
    /\ loadnet' = NoWeights
    /\ Raise("ModelError", "Exception")
    /\ UNCHANGED <<swinir_available, m_op, m_before, m_builds, m_loads, m_downloads>>
    /\ UNCHANGED <<dvars, NonManager>>

\* ---- unload_model ----

UnloadNoop ==
    /\ Enter("unload", None)
    /\ loaded_model = NoHandle
    /\ Return(NoHandle)
    /\ UNCHANGED <<loaded_model, current_model_name, swinir_available, loadnet, building>>
    /\ UNCHANGED <<dvars, NonManager>>

UnloadOk ==
    /\ Enter("unload", None)
    /\ Held
    /\ loaded_model' = NoHandle
    /\ current_model_name' = None
    /\ Return(NoHandle)
    /\ UNCHANGED <<swinir_available, loadnet, building>>
    /\ UNCHANGED <<dvars, NonManager>>

UnloadFails ==
    /\ Enter("unload", None)
    /\ Held
    /\ loaded_model' = Deleted
    /\ Raise("ModelError", "RuntimeError")
    /\ UNCHANGED <<current_model_name, swinir_available, loadnet, building>>
    /\ UNCHANGED <<dvars, NonManager>>

UnloadAttributeError ==
    /\ Enter("unload", None)
    /\ loaded_model = Deleted
    /\ Raise("UpscalerError", "AttributeError")
    /\ UNCHANGED <<loaded_model, current_model_name, swinir_available, loadnet, building>>
    /\ UNCHANGED <<dvars, NonManager>>

\* ---- download_model ----

ManagerDownloadRejected ==
    /\ \E name \in ModelNames :
          /\ Enter("download", name)
          /\ name \notin HasUrl
    /\ Raise("ModelError", None)
    /\ UNCHANGED <<loaded_model, current_model_name, swinir_available, loadnet, building>>
    /\ UNCHANGED <<dvars, NonManager>>

ManagerDownloadStart ==
    /\ \E name \in HasUrl, cb \in BOOLEAN :
          /\ Enter("download", name)
          /\ \/ DownloadExisting(name, cb)
             \/ DownloadBegin(name, cb)
    /\ m_pc' = "download_wait"
    /\ m_ret' = NoHandle
    /\ m_error' = None
    /\ m_cause' = None
    /\ UNCHANGED <<loaded_model, current_model_name, swinir_available, loadnet, building>>
    /\ UNCHANGED NonManager

ManagerDownloadDoneResets ==
    /\ m_pc = "download_wait"
    /\ dl_pc = "returned"
    /\ Return(NoHandle)
    /\ m_downloads' = m_downloads + 1
    /\ loaded_model' = NoHandle
    /\ current_model_name' = None
    /\ UNCHANGED <<swinir_available, loadnet, building, m_op, m_before, m_builds, m_loads>>
    /\ UNCHANGED <<dvars, NonManager>>

\* the path the downloader returned (dl_result) is returned unchanged
ManagerDownloadDone ==
    /\ m_pc = "download_wait"
    /\ dl_pc = "returned"
    /\ Return(NoHandle)
    /\ m_downloads' = m_downloads + 1
    /\ UNCHANGED <<loaded_model, current_model_name, swinir_available, loadnet, building,
                   m_op, m_before, m_builds, m_loads>>
    /\ UNCHANGED <<dvars, NonManager>>

ManagerDownloadFailed ==
    /\ m_pc = "download_wait"
    /\ dl_pc = "raised"
    /\ Raise("ModelError", dl_error)
    /\ m_downloads' = m_downloads + 1
    /\ UNCHANGED <<loaded_model, current_model_name, swinir_available, loadnet, building,
                   m_op, m_before, m_builds, m_loads>>
    /\ UNCHANGED <<dvars, NonManager>>

NextManager ==
    \/ LoadAlreadyLoaded
    \/ LoadAttributeError
    \/ LoadBegin
    \/ LoadUnloadOk
    \/ LoadUnloadFails
    \/ LoadUnknown
    \/ LoadFileThere
    \/ LoadDownloadNoUrl
    \/ LoadStartsDownload
    \/ LoadDownloadFailed
    \/ LoadDownloadDone
    \/ LoadUnsupported
    \/ LoadSwinIRImportFails
    \/ LoadConstruct
    \/ LoadWeightsOk
    \/ LoadWeightsFail
    \/ LoadStoreReturn
    \/ LoadStoreThenRaise
    \/ UnloadNoop
    \/ UnloadOk
    \/ UnloadFails
    \/ UnloadAttributeError
    \/ ManagerDownloadRejected
    \/ ManagerDownloadStart
    \/ ManagerDownloadDone
    \/ ManagerDownloadFailed
    \/ DownloadStep

ManagerAtRest ==
    /\ loaded_model = NoHandle
    /\ current_model_name = None
    /\ swinir_available = FALSE
    /\ building = NoHandle
    /\ loadnet = NoWeights
    /\ m_pc = "off"
    /\ m_op = [op |-> None, name |-> None]
    /\ m_before = <<NoHandle, None>>
    /\ m_ret = NoHandle
    /\ m_error = None
    /\ m_cause = None
    /\ m_builds = 0
    /\ m_loads = 0
    /\ m_downloads = 0

\* ------------------------------------------------------------------------
\* Upscaler.upscale_batch.  Each upscale_image call of the loop is taken by
\* its outcome: it returns the output path or it raises.
\* ------------------------------------------------------------------------
\* numbers of images in a batch
BatchSizes == (0..MaxBatch) \cup {50}

InitBatch ==
    /\ b_pc = "call"
    /\ b_cb \in BOOLEAN
    /\ total_images \in BatchSizes
    /\ b_i = 0
    /\ output_paths = << >>
    /\ successful_images = 0
    /\ failed_images = 0
    /\ batch_reports = << >>
    /\ b_result = None
    /\ b_error = None

\* what the callback is given, when there is one
Reported(report) == IF b_cb THEN Append(batch_reports, report) ELSE batch_reports

\* int(i / total_images * 100)
batch_progress(i) == F64Percent(i, total_images)

\* the output directory is there: the loop starts
BatchBegin ==
    /\ b_pc = "call"
    /\ b_pc' = "loop"
    /\ UNCHANGED <<b_cb, total_images, b_i, output_paths, successful_images,
                   failed_images, batch_reports, b_result, b_error>>
    /\ UNCHANGED NonBatch

\* os.makedirs raises: the outer handler raises UpscalerError
BatchSetupFails ==
    /\ b_pc = "call"
    /\ b_error' = "UpscalerError"
    /\ b_pc' = "raised"
    /\ UNCHANGED <<b_cb, total_images, b_i, output_paths, successful_images,
                   failed_images, batch_reports, b_result>>
    /\ UNCHANGED NonBatch

\* the batch progress is reported before image i is processed
BatchReport ==
    /\ b_pc = "loop"
    /\ b_i < total_images
    /\ batch_reports' = Reported(<<batch_progress(b_i), b_i, total_images>>)
    /\ b_pc' = "image"
    /\ UNCHANGED <<b_cb, total_images, b_i, output_paths, successful_images,
                   failed_images, b_result, b_error>>
    /\ UNCHANGED NonBatch

\* upscale_image returns: the path is appended
BatchImageOk ==
    /\ b_pc = "image"
    /\ output_paths' = Append(output_paths, b_i)
    /\ successful_images' = successful_images + 1
    /\ b_i' = b_i + 1
    /\ b_pc' = "loop"
    /\ UNCHANGED <<b_cb, total_images, failed_images, batch_reports, b_result,
                   b_error>>
    /\ UNCHANGED NonBatch

\* upscale_image raises: counted, logged, the loop goes on
BatchImageFailsAborts ==
    /\ b_pc = "image"
    /\ failed_images < MaxFail
    /\ failed_images' = failed_images + 1
    /\ b_error' = "UpscalerError"
    /\ b_pc' = "raised"
    /\ UNCHANGED <<b_cb, total_images, b_i, output_paths, successful_images,
                   batch_reports, b_result>>
    /\ UNCHANGED NonBatch

BatchImageFails ==
    /\ b_pc = "image"
    /\ failed_images < MaxFail
    /\ failed_images' = failed_images + 1
    /\ b_i' = b_i + 1
    /\ b_pc' = "loop"
    /\ UNCHANGED <<b_cb, total_images, output_paths, successful_images,
                   batch_reports, b_result, b_error>>
    /\ UNCHANGED NonBatch

\* after the loop: the final report, the list is returned
BatchFinish ==
    /\ b_pc = "loop"
    /\ b_i = total_images
    /\ batch_reports' = Reported(<<100, total_images, total_images>>)
    /\ b_result' = output_paths
    /\ b_pc' = "returned"
    /\ UNCHANGED <<b_cb, total_images, b_i, output_paths, successful_images,
                   failed_images, b_error>>
    /\ UNCHANGED NonBatch

NextBatch ==
    \/ BatchBegin
    \/ BatchSetupFails
    \/ BatchReport
    \/ BatchImageOk
    \/ BatchImageFails
    \/ BatchFinish

BatchAtRest ==
    /\ b_pc = "off"
    /\ b_cb = FALSE
    /\ total_images = 0
    /\ b_i = 0
    /\ output_paths = << >>
    /\ successful_images = 0
    /\ failed_images = 0
    /\ batch_reports = << >>
    /\ b_result = None
    /\ b_error = None

\* ------------------------------------------------------------------------
\* ImageProcessor.load_image and save_image.  A path is the sequence of its
\* components below the working directory; the last one is the file name.
\* ------------------------------------------------------------------------
NoContent == "absent"

\* what a file can hold
Contents == {"image", "unidentified", "corrupt"}

ImagePaths == {<<"in.png">>, <<"out", "in.png">>, <<"out", "run", "in.png">>}

\* os.path.dirname: the path without its last component ("" for a bare
\* file name)
dirname(path) == SubSeq(path, 1, Len(path) - 1)

\* the directories os.makedirs has to create for d, outermost first
Missing(dirs, d) == {SubSeq(d, 1, k) : k \in 1..Len(d)} \ dirs

\* os.mkdir of each missing directory is permitted: its parent is there
\* (or is created just before) and takes new entries
Creatable(dirs, d) ==
    \A m \in Missing(dirs, d) : dirname(m) \notin fs_readonly

\* the directories after os.makedirs(d, exist_ok=True): every missing one
\* is created, outermost first, up to the first that is refused
makedirsNothing(dirs, d) == dirs
makedirs(dirs, d) ==
    dirs \cup {m \in Missing(dirs, d) :
                   \A k \in 1..Len(m) :
                       SubSeq(m, 1, k) \in dirs
                           \/ SubSeq(m, 1, k - 1) \notin fs_readonly}

\* os.makedirs raises: "" is not a directory name (FileNotFoundError), or
\* a directory cannot be created (PermissionError)
MakedirsRaises(dirs, d) == d = << >> \/ ~Creatable(dirs, d)

\* img.save can open the target for writing
CanWrite(dirs, path) == dirname(path) \in dirs /\ dirname(path) \notin fs_readonly

InitFiles ==
    /\ fs_dirs \in {{<< >>}, {<< >>, <<"out">>}, {<< >>, <<"out">>, <<"out", "run">>}}
    /\ fs_readonly \in SUBSET fs_dirs
    /\ fs_files \in [ImagePaths -> Contents \cup {NoContent}]
    /\ \A path \in ImagePaths : fs_files[path] # NoContent => dirname(path) \in fs_dirs
    /\ ip_op = [op |-> None, path |-> << >>]
    /\ ip_before = <<fs_dirs, fs_files>>
    /\ ip_result = None
    /\ ip_error = None
    /\ ip_cause = None

\* load_image(image_path)
LoadImageCall(path) ==
    /\ ip_op' = [op |-> "load_image", path |-> path]
    /\ ip_before' = <<fs_dirs, fs_files>>
    /\ IF fs_files[path] = NoContent
       THEN \* os.path.exists is false
            /\ ip_error' = "ImageProcessingError"
            /\ ip_cause' = None
            /\ ip_result' = None
       ELSE IF fs_files[path] = "unidentified"
       THEN \* Image.open raises UnidentifiedImageError
            /\ ip_error' = "ImageProcessingError"
            /\ ip_cause' = "UnidentifiedImageError"
            /\ ip_result' = None
       ELSE IF fs_files[path] = "corrupt"
       THEN \* verify() or convert() raises
            /\ ip_error' = "ImageProcessingError"
            /\ ip_cause' = "Exception"
            /\ ip_result' = None
       ELSE /\ ip_error' = None
            /\ ip_cause' = None
            /\ ip_result' = "img"
    /\ UNCHANGED <<fs_dirs, fs_readonly, fs_files>>

\* save_image(img, output_path) with an 8-bit array
SaveImageCall(path) ==
    /\ ip_op' = [op |-> "save_image", path |-> path]
    /\ ip_before' = <<fs_dirs, fs_files>>
    /\ fs_dirs' = makedirs(fs_dirs, dirname(path))
    /\ IF MakedirsRaises(fs_dirs, dirname(path))
       THEN /\ ip_error' = "ImageProcessingError"
            /\ ip_cause' = IF dirname(path) = << >> THEN "FileNotFoundError"
                           ELSE "PermissionError"
            /\ ip_result' = None
            /\ fs_files' = fs_files
       ELSE IF ~CanWrite(fs_dirs', path)
       THEN /\ ip_error' = "ImageProcessingError"
            /\ ip_cause' = "PermissionError"
            /\ ip_result' = None
            /\ fs_files' = fs_files
       ELSE /\ ip_error' = None
            /\ ip_cause' = None
            /\ ip_result' = "output_path"
            /\ fs_files' = [fs_files EXCEPT ![path] = "image"]
    /\ UNCHANGED fs_readonly

LoadImage ==
    /\ \E path \in ImagePaths : LoadImageCall(path)
    /\ UNCHANGED NonFiles

SaveImage ==
    /\ \E path \in ImagePaths : SaveImageCall(path)
    /\ UNCHANGED NonFiles

NextFiles ==
    \/ LoadImage
    \/ SaveImage

FilesAtRest ==
    /\ fs_dirs = {<< >>}
    /\ fs_readonly = {}
    /\ fs_files = [path \in ImagePaths |-> NoContent]
    /\ ip_op = [op |-> None, path |-> << >>]
    /\ ip_before = <<fs_dirs, fs_files>>
    /\ ip_result = None
    /\ ip_error = None
    /\ ip_cause = None

\* ------------------------------------------------------------------------
\* Upscaler.upscale_batch driving upscale_image and ModelManager.load_model.
\* The manager's load_model is the one modelled above, step by step; what
\* upscale_image does once the model is loaded (reading the image, tiling,
\* saving) is taken by its outcome.
\* ------------------------------------------------------------------------
\* the models directory a manager starts with: any subset of the configured
\* weight files; the remote file is one block long and announces its length
InitModelsDir ==
    /\ InitDownload
    /\ remote = [size |-> block_size, announced |-> block_size]
    /\ files["nonexistent_model"] = NoFile

\* the handles a manager can hold when a batch starts
PreloadedHandles ==
    {NoHandle}
        \cup {[model |-> name, weights |-> key] :
                  name \in RealESRGANNames, key \in {"params_ema", "params"}}
        \cup {[model |-> name, weights |-> "params"] : name \in SwinIRNames}

InitPipeline ==
    /\ InitModelsDir
    /\ loaded_model \in PreloadedHandles
    /\ current_model_name = loaded_model.model
    /\ swinir_available \in BOOLEAN
    /\ loaded_model.model \in SwinIRNames => swinir_available
    /\ building = NoHandle
    /\ loadnet = NoWeights
    /\ m_pc = "idle"
    /\ m_op = [op |-> None, name |-> None]
    /\ m_before = <<NoHandle, None>>
    /\ m_ret = NoHandle
    /\ m_error = None
    /\ m_cause = None
    /\ m_builds = 0
    /\ m_loads = 0
    /\ m_downloads = 0
    /\ u_pc = "batch"
    /\ u_n \in 1..MaxBatch
    /\ u_i = 0
    /\ u_name \in ModelNames
    /\ u_before = <<loaded_model, current_model_name, files>>
    /\ u_mcalls = 0
    /\ u_error = None
    /\ u_outputs = {}
    /\ u_failed = 0
    /\ u_load_failures = 0
    /\ u_handle = NoHandle
    /\ u_builds = 0
    /\ u_loads = 0
    /\ u_downloads = 0

\* self.config.get_model_info(model_name) finds an entry
KnownModelAlways(name) == TRUE
KnownModel(name) == name \in Configured

\* upscale_image for the next image: the model id is not configured, the
\* call raises UpscalerError and the batch loop goes on
PipeImageUnknown ==
    /\ u_pc = "batch"
    /\ u_i < u_n
    /\ ~KnownModel(u_name)
    /\ u_before' = <<loaded_model, current_model_name, files>>
    /\ u_mcalls' = 0
    /\ u_error' = "UpscalerError"
    /\ u_i' = u_i + 1
    /\ UNCHANGED <<u_pc, u_n, u_name, u_outputs, u_failed, u_load_failures, u_handle,
                   u_builds, u_loads, u_downloads>>
    /\ UNCHANGED <<dvars, mvars, NonPipeline>>

\* upscale_image for the next image: the model id is configured and
\* self.model_manager.load_model(model_name) is called
PipeImageLoad ==
    /\ u_pc = "batch"
    /\ u_i < u_n
    /\ KnownModel(u_name)
    /\ \/ LoadAlreadyLoadedCall(u_name)
       \/ LoadAttributeErrorCall(u_name)
       \/ LoadBeginCall(u_name)
    /\ u_before' = <<loaded_model, current_model_name, files>>
    /\ u_mcalls' = 1
    /\ u_error' = None
    /\ u_pc' = "loading"
    /\ UNCHANGED <<u_n, u_i, u_name, u_outputs, u_failed, u_load_failures, u_handle,
                   u_builds, u_loads, u_downloads>>
    /\ UNCHANGED NonPipeline

\* what the load_model call that just ended adds to the batch's counts
Counted ==
    /\ u_builds' = u_builds + m_builds
    /\ u_loads' = u_loads + m_loads
    /\ u_downloads' = u_downloads + m_downloads

\* load_model raised: upscale_image raises UpscalerError, the loop goes on
PipeLoadFailed ==
    /\ u_pc = "loading"
    /\ m_pc = "idle"
    /\ m_error # None
    /\ Counted
    /\ u_load_failures' = u_load_failures + 1
    /\ u_error' = "UpscalerError"
    /\ u_i' = u_i + 1
    /\ u_pc' = "batch"
    /\ UNCHANGED <<u_n, u_name, u_before, u_mcalls, u_outputs, u_failed, u_handle>>
    /\ UNCHANGED <<dvars, mvars, NonPipeline>>

\* load_model returned the handle
PipeLoadReturned ==
    /\ u_pc = "loading"
    /\ m_pc = "idle"
    /\ m_error = None
    /\ Counted
    /\ u_handle' = IF u_handle = NoHandle THEN m_ret ELSE u_handle
    /\ u_pc' = "work"
    /\ UNCHANGED <<u_n, u_i, u_name, u_before, u_mcalls, u_error, u_outputs, u_failed,
                   u_load_failures>>
    /\ UNCHANGED <<dvars, mvars, NonPipeline>>

\* the image is read, upscaled and saved: upscale_image returns the path
PipeImageOk ==
    /\ u_pc = "work"
    /\ u_outputs' = u_outputs \cup {u_i}
    /\ u_i' = u_i + 1
    /\ u_pc' = "batch"
    /\ UNCHANGED <<u_n, u_name, u_before, u_mcalls, u_error, u_failed, u_load_failures,
                   u_handle, u_builds, u_loads, u_downloads>>
    /\ UNCHANGED <<dvars, mvars, NonPipeline>>

\* reading, upscaling or saving raises: upscale_image raises UpscalerError
PipeImageFails ==
    /\ u_pc = "work"
    /\ u_failed < MaxFail
    /\ u_failed' = u_failed + 1
    /\ u_error' = "UpscalerError"
    /\ u_i' = u_i + 1
    /\ u_pc' = "batch"
    /\ UNCHANGED <<u_n, u_name, u_before, u_mcalls, u_outputs, u_load_failures,
                   u_handle, u_builds, u_loads, u_downloads>>
    /\ UNCHANGED <<dvars, mvars, NonPipeline>>

\* the loop is over
PipeFinish ==
    /\ u_pc = "batch"
    /\ u_i = u_n
    /\ u_pc' = "done"
    /\ UNCHANGED <<u_n, u_i, u_name, u_before, u_mcalls, u_error, u_outputs, u_failed,
                   u_load_failures, u_handle, u_builds, u_loads, u_downloads>>
    /\ UNCHANGED <<dvars, mvars, NonPipeline>>

\* (load_model's own "Unknown model" branch is never taken here: upscale_image
\* has looked the id up before it calls load_model)
NextPipeline ==
    \/ PipeImageUnknown
    \/ PipeImageLoad
    \/ PipeLoadFailed
    \/ PipeLoadReturned
    \/ PipeImageOk
    \/ PipeImageFails
    \/ PipeFinish
    \/ LoadUnloadOk
    \/ LoadUnloadFails
    \/ LoadFileThere
    \/ LoadDownloadNoUrl
    \/ LoadStartsDownload
    \/ LoadDownloadFailed
    \/ LoadDownloadDone
    \/ LoadUnsupported
    \/ LoadSwinIRImportFails
    \/ LoadConstruct
    \/ LoadWeightsOk
    \/ LoadWeightsFail
    \/ LoadStoreReturn
    \/ LoadStoreThenRaise
    \/ DownloadStep

PipelineAtRest ==
    /\ u_pc = "off"
    /\ u_n = 0
    /\ u_i = 0
    /\ u_name = None
    /\ u_before = << >>
    /\ u_mcalls = 0
    /\ u_error = None
    /\ u_outputs = {}
    /\ u_failed = 0
    /\ u_load_failures = 0
    /\ u_handle = NoHandle
    /\ u_builds = 0
    /\ u_loads = 0
    /\ u_downloads = 0

\* ------------------------------------------------------------------------
\* MainWindow: the buttons, the worker threads and their signals
\* ------------------------------------------------------------------------
Buttons == {"upscale_button", "select_image_button", "batch_upscale_button",
            "select_batch_button", "download_button"}

\* what the file dialogs can return: one path, or a list of paths; the
\* empty string and the empty list stand for a cancelled dialog
ImageFiles == {"a.png", "b.png"}
Cancelled == ""
BatchSelections == {<<"a.png">>, <<"a.png", "b.png">>}

\* the state after MainWindow.__init__: the two upscale buttons are disabled
\* until something is selected, the combo box shows its first item
InitWindow ==
    /\ enabled = [b \in Buttons |->
                     b \notin {"upscale_button", "batch_upscale_button"}]
    /\ current_image_path = None
    /\ batch_image_paths = << >>
    /\ combo_data = "realesrgan-x4plus"
    /\ threads = << >>
    /\ signals = << >>
    /\ dialogs = << >>
    /\ last_handler = None

\* a click reaches a button of the main window only when the button is
\* enabled and no modal dialog is open
Clickable(b) == enabled[b] /\ dialogs = << >>

Top(stack) == stack[Len(stack)]
Pop(stack) == SubSeq(stack, 1, Len(stack) - 1)
Without(seq, i) == SubSeq(seq, 1, i - 1) \o SubSeq(seq, i + 1, Len(seq))

\* "Disable UI during processing": the five setEnabled(False) calls that
\* upscale_image, batch_upscale and download_model each make before they
\* start their thread
DisableUIKeepsDownload(en) == [b \in Buttons |-> b = "download_button" /\ en[b]]
DisableUI(en) == [b \in Buttons |-> FALSE]

\* the user picks another entry of model_combo
ChangeModel ==
    /\ dialogs = << >>
    /\ \E id \in Configured \ {combo_data} : combo_data' = id
    /\ UNCHANGED <<enabled, current_image_path, batch_image_paths, threads, signals,
                   dialogs, last_handler>>
    /\ UNCHANGED NonWindow

\* select_image up to getOpenFileName, which opens a modal dialog and runs
\* an event loop of its own until the dialog is closed
SelectImageOpens ==
    /\ Clickable("select_image_button")
    /\ dialogs' = Append(dialogs, "select_image")
    /\ UNCHANGED <<enabled, current_image_path, batch_image_paths, combo_data,
                   threads, signals, last_handler>>
    /\ UNCHANGED NonWindow

\* select_image from the return of getOpenFileName on
SelectImageReturns ==
    /\ dialogs # << >>
    /\ Top(dialogs) = "select_image"
    /\ dialogs' = Pop(dialogs)
    /\ \E file_path \in ImageFiles \cup {Cancelled} :
          IF file_path # Cancelled
          THEN /\ current_image_path' = file_path
               /\ enabled' = [enabled EXCEPT !["upscale_button"] = TRUE]
          ELSE UNCHANGED <<current_image_path, enabled>>
    /\ UNCHANGED <<batch_image_paths, combo_data, threads, signals, last_handler>>
    /\ UNCHANGED NonWindow

\* select_batch_images up to getOpenFileNames
SelectBatchOpens ==
    /\ Clickable("select_batch_button")
    /\ dialogs' = Append(dialogs, "select_batch_images")
    /\ UNCHANGED <<enabled, current_image_path, batch_image_paths, combo_data,
                   threads, signals, last_handler>>
    /\ UNCHANGED NonWindow

\* select_batch_images from the return of getOpenFileNames on
SelectBatchReturns ==
    /\ dialogs # << >>
    /\ Top(dialogs) = "select_batch_images"
    /\ dialogs' = Pop(dialogs)
    /\ \E file_paths \in BatchSelections \cup {<< >>} :
          IF file_paths # << >>
          THEN /\ batch_image_paths' = file_paths
               /\ enabled' = [enabled EXCEPT !["batch_upscale_button"] = TRUE]
          ELSE UNCHANGED <<batch_image_paths, enabled>>
    /\ UNCHANGED <<current_image_path, combo_data, threads, signals, last_handler>>
    /\ UNCHANGED NonWindow

\* MainWindow.upscale_image: nothing without a selected image; otherwise the
\* buttons are disabled and an UpscalerThread is started
UpscaleClicked ==
    /\ Clickable("upscale_button")
    /\ IF current_image_path = None
       THEN UNCHANGED <<enabled, threads>>
       ELSE /\ enabled' = DisableUI(enabled)
            /\ threads' = Append(threads, [kind |-> "upscale",
                                           model_name |-> combo_data])
    /\ UNCHANGED <<current_image_path, batch_image_paths, combo_data, signals,
                   dialogs, last_handler>>
    /\ UNCHANGED NonWindow

\* MainWindow.batch_upscale
BatchUpscaleClicked ==
    /\ Clickable("batch_upscale_button")
    /\ IF batch_image_paths = << >>
       THEN UNCHANGED <<enabled, threads>>
       ELSE /\ enabled' = DisableUI(enabled)
            /\ threads' = Append(threads, [kind |-> "batch",
                                           model_name |-> combo_data])
    /\ UNCHANGED <<current_image_path, batch_image_paths, combo_data, signals,
                   dialogs, last_handler>>
    /\ UNCHANGED NonWindow

\* MainWindow.download_model
DownloadClicked ==
    /\ Clickable("download_button")
    /\ enabled' = DisableUI(enabled)
    /\ threads' = Append(threads, [kind |-> "download", model_name |-> combo_data])
    /\ UNCHANGED <<current_image_path, batch_image_paths, combo_data, signals,
                   dialogs, last_handler>>
    /\ UNCHANGED NonWindow

\* QThread.run of a worker: its Upscaler call returns and finished_signal
\* is emitted, or the call raises and error_signal is emitted; the signal
\* is queued for the main thread
WorkerFinished ==
    /\ \E i \in DOMAIN threads :
          /\ threads' = Without(threads, i)
          /\ signals' = Append(signals, [kind |-> threads[i].kind,
                                         signal |-> "finished_signal"])
    /\ UNCHANGED <<enabled, current_image_path, batch_image_paths, combo_data,
                   dialogs, last_handler>>
    /\ UNCHANGED NonWindow

WorkerRaised ==
    /\ \E i \in DOMAIN threads :
          /\ threads' = Without(threads, i)
          /\ signals' = Append(signals, [kind |-> threads[i].kind,
                                         signal |-> "error_signal"])
    /\ UNCHANGED <<enabled, current_image_path, batch_image_paths, combo_data,
                   dialogs, last_handler>>
    /\ UNCHANGED NonWindow

\* the slot each signal of each kind of worker is connected to
Slot(s) ==
    IF s.signal = "finished_signal"
    THEN CASE s.kind = "upscale" -> "upscale_finished"
           [] s.kind = "batch" -> "batch_upscale_finished"
           [] s.kind = "download" -> "download_finished"
    ELSE IF s.kind = "download" THEN "download_error" ELSE "upscale_error"

\* the "Re-enable UI" block of the five slots
ReEnabled(slot) ==
    [b \in Buttons |->
        CASE b = "upscale_button" ->
                 IF slot = "upscale_finished" THEN TRUE
                 ELSE current_image_path # None
          [] b = "batch_upscale_button" ->
                 IF slot = "batch_upscale_finished" THEN TRUE
                 ELSE batch_image_paths # << >>
          [] OTHER -> TRUE]

\* the slot the oldest queued signal is delivered to by the main thread's
\* event loop
Delivered(slot) == signals # << >> /\ Slot(Head(signals)) = slot

\* what every slot does: the buttons are re-enabled and a message box opens
SlotRuns(slot) ==
    /\ signals' = Tail(signals)
    /\ enabled' = ReEnabled(slot)
    /\ dialogs' = Append(dialogs, "message")
    /\ last_handler' = slot
    /\ UNCHANGED <<current_image_path, batch_image_paths, combo_data, threads>>
    /\ UNCHANGED NonWindow

upscale_finished ==
    /\ Delivered("upscale_finished")
    /\ SlotRuns("upscale_finished")

batch_upscale_finished ==
    /\ Delivered("batch_upscale_finished")
    /\ SlotRuns("batch_upscale_finished")

download_finished ==
    /\ Delivered("download_finished")
    /\ SlotRuns("download_finished")

upscale_error ==
    /\ Delivered("upscale_error")
    /\ SlotRuns("upscale_error")

download_error ==
    /\ Delivered("download_error")
    /\ SlotRuns("download_error")

\* the user closes the message box of a slot
MessageClosed ==
    /\ dialogs # << >>
    /\ Top(dialogs) = "message"
    /\ dialogs' = Pop(dialogs)
    /\ UNCHANGED <<enabled, current_image_path, batch_image_paths, combo_data,
                   threads, signals, last_handler>>
    /\ UNCHANGED NonWindow

NextWindow ==
    \/ ChangeModel
    \/ SelectImageOpens
    \/ SelectImageReturns
    \/ SelectBatchOpens
    \/ SelectBatchReturns
    \/ UpscaleClicked
    \/ BatchUpscaleClicked
    \/ DownloadClicked
    \/ WorkerFinished
    \/ WorkerRaised
    \/ upscale_finished
    \/ batch_upscale_finished
    \/ download_finished
    \/ upscale_error
    \/ download_error
    \/ MessageClosed

WindowAtRest ==
    /\ enabled = [b \in Buttons |-> FALSE]
    /\ current_image_path = None
    /\ batch_image_paths = << >>
    /\ combo_data = None
    /\ threads = << >>
    /\ signals = << >>
    /\ dialogs = << >>
    /\ last_handler = None

\* the downloader and the pipeline at rest, for the specifications that
\* do not exercise them
DownloadAtRest ==
    /\ remote = [size |-> block_size, announced |-> block_size]
    /\ files = [n \in ModelNames |-> NoFile]
    /\ dl_pc = "idle"
    /\ dl_name = None
    /\ dl_cb = FALSE
    /\ attempt = 0
    /\ retry_delay = initial_retry_delay
    /\ requests = 0
    /\ sleeps = << >>
    /\ total_size = 0
    /\ downloaded = 0
    /\ dl_callbacks = << >>
    /\ dl_result = None
    /\ dl_error = None
    /\ dl_cause = None
    /\ caught = None

TilingAtRest ==
    /\ w = 1
    /\ h = 1
    /\ tile_size = 1
    /\ tile_padding = 0
    /\ scale = 1
    /\ img = TestImage(1, 1, 0)
    /\ output = << >>
    /\ writes = << >>
    /\ x = 0
    /\ y = 0
    /\ tiles_processed = 0
    /\ progress = << >>
    /\ visited = << >>
    /\ failed = {}
    /\ model_raised = {}
    /\ pc = "off"
    /\ error = None
    /\ up_progress = << >>
    /\ up_error = None
    /\ output_file = None

\* ------------------------------------------------------------------------
\* Specifications
\* ------------------------------------------------------------------------
InitTilingSpec == InitTiling /\ DownloadAtRest /\ ManagerAtRest /\ BatchAtRest /\ FilesAtRest /\ PipelineAtRest /\ WindowAtRest
SpecTiling == InitTilingSpec /\ [][NextTiling]_vars

InitGridSpec == InitGrid /\ DownloadAtRest /\ ManagerAtRest /\ BatchAtRest /\ FilesAtRest /\ PipelineAtRest /\ WindowAtRest
SpecGrid == InitGridSpec /\ [][NextGrid]_vars

InitDownloadSpec == InitDownload /\ TilingAtRest /\ ManagerAtRest /\ BatchAtRest /\ FilesAtRest /\ PipelineAtRest /\ WindowAtRest
SpecDownload == InitDownloadSpec /\ [][NextDownload]_vars

InitBatchSpec == InitBatch /\ TilingAtRest /\ DownloadAtRest /\ ManagerAtRest /\ FilesAtRest /\ PipelineAtRest /\ WindowAtRest
SpecBatch == InitBatchSpec /\ [][NextBatch]_vars

InitFilesSpec ==
    InitFiles /\ TilingAtRest /\ DownloadAtRest /\ ManagerAtRest /\ BatchAtRest
        /\ PipelineAtRest /\ WindowAtRest
SpecFiles == InitFilesSpec /\ [][NextFiles]_vars

InitPipelineSpec ==
    InitPipeline /\ TilingAtRest /\ BatchAtRest /\ FilesAtRest /\ WindowAtRest
SpecPipeline == InitPipelineSpec /\ [][NextPipeline]_vars

InitWindowSpec ==
    InitWindow /\ TilingAtRest /\ DownloadAtRest /\ ManagerAtRest /\ BatchAtRest
        /\ FilesAtRest /\ PipelineAtRest
SpecWindow == InitWindowSpec /\ [][NextWindow]_vars

InitManagerSpec == InitManager /\ InitModelsDir /\ TilingAtRest /\ BatchAtRest /\ FilesAtRest /\ PipelineAtRest /\ WindowAtRest
SpecManager == InitManagerSpec /\ [][NextManager]_vars

\* ------------------------------------------------------------------------
\* Properties of the tiling pipeline (SpecTiling)
\* ------------------------------------------------------------------------
Range(f) == {f[i] : i \in DOMAIN f}

CanvasAllocated == pc \in {"tile", "tiling_returned", "tiling_raised", "done", "failed"}
TilingReturned == pc \in {"tiling_returned", "done"} \/ (pc = "failed" /\ error = None)

\* the grid cells of the image, as the spec's TilePlanner lists them
GridCells ==
    {c \in (0..(w - 1)) \X (0..(h - 1)) : c[1] % tile_size = 0 /\ c[2] % tile_size = 0}

\* the destination rectangle the claim gives for cell c, as a pixel set
ClaimedRect(c) ==
    {p \in (0..(h * scale - 1)) \X (0..(w * scale - 1)) :
        /\ c[2] * scale <= p[1]
        /\ p[1] < Min(h * scale, (c[2] + tile_size) * scale)
        /\ c[1] * scale <= p[2]
        /\ p[2] < Min(w * scale, (c[1] + tile_size) * scale)}

\* number of skipped tiles whose destination rectangle holds pixel p
SkippedAt(p) == Cardinality({t \in failed : InDest(t[1], t[2], p)})

\* C1: the destination rectangle written for each visited tile is the
\* rectangle [x*s, min(W*s, (x+T)*s)) x [y*s, min(H*s, (y+T)*s)) of its grid
\* cell; no canvas pixel is ever written twice, and when the call returns
\* the visited tiles are the grid cells and every pixel of the W*s by H*s
\* canvas lies in exactly one destination rectangle (written once, or once
\* skipped when the tile's processing raised).
C1_Partition ==
    /\ CanvasAllocated =>
          /\ DOMAIN output = (0..(h * scale - 1)) \X (0..(w * scale - 1))
          /\ \A p \in DOMAIN writes : writes[p] <= 1
          /\ visited # << >> =>
                LET t == visited[Len(visited)]
                IN  {p \in DOMAIN output : InDest(t[1], t[2], p)} = ClaimedRect(t)
    /\ pc = "tiling_returned" =>
          /\ Range(visited) = GridCells
          /\ Len(visited) = Cardinality(GridCells)
          /\ \A p \in DOMAIN output : writes[p] + SkippedAt(p) = 1
          /\ model_raised = {} => \A p \in DOMAIN writes : writes[p] = 1

C1_Witness ==
    /\ pc = "tiling_returned"
    /\ failed = {}
    /\ total_tiles >= 4
    /\ w % tile_size # 0
    /\ scale > 1
    /\ tile_padding > 0

\* C2: with the identity model (scale 1, never raising) the tiling call
\* returns, and upscale_image saves, a canvas equal to the input image pixel
\* for pixel, and the call does not raise.
C2_IdentityRoundTrip ==
    (scale = 1 /\ model_raised = {}) =>
        /\ RoundTripLosses = {}
        /\ error = None
        /\ TilingReturned => output = img
        /\ pc = "done" => output_file = img

C2_Witness ==
    /\ pc = "done"
    /\ scale = 1
    /\ failed = {}
    /\ w % tile_size # 0
    /\ h % tile_size # 0
    /\ tile_padding >= tile_size
    /\ total_tiles > 1

\* what a run without failure stores at canvas pixel p
Reference(p) ==
    postprocess_image(Normalized[img[<<p[1] \div scale, p[2] \div scale>>]])

InFailedRect(p) == \E t \in failed : InDest(t[1], t[2], p)

\* C9: when a tile other than the first raises, the call does not raise,
\* goes on to visit every tile, and returns the canvas; the destination
\* rectangle of a tile that raised is all zero and every other pixel holds
\* what a run without the failure stores there.
C9_LaterTileFailureSkipped ==
    (failed # {} /\ <<0, 0>> \notin failed) =>
        /\ error = None
        /\ pc # "tiling_raised"
        /\ tiles_processed = Len(visited)
        /\ TilingReturned =>
              /\ tiles_processed = total_tiles
              /\ Range(visited) = GridCells
        /\ pc = "tiling_returned" =>
              \A p \in DOMAIN output :
                  /\ output[p] = IF InFailedRect(p) THEN 0 ELSE Reference(p)
                  /\ writes[p] = IF InFailedRect(p) THEN 0 ELSE 1
        /\ pc = "done" => output_file = output

C9_Witness ==
    /\ pc = "done"
    /\ failed # {}
    /\ total_tiles > 2
    /\ <<0, 0>> \notin failed
    /\ \E p \in DOMAIN output : ~InFailedRect(p) /\ output[p] # 0

\* C10: when the first tile raises, the tiling call raises an
\* ImageProcessingError after that one tile: no further tile is visited, no
\* progress is reported, no canvas is returned, and upscale_image saves no
\* output file and fails.
C10_FirstTileFailureAborts ==
    /\ (<<0, 0>> \in failed) <=> (error = "ImageProcessingError")
    /\ (<<0, 0>> \in failed) =>
          /\ pc \in {"tiling_raised", "failed"}
          /\ visited = << <<0, 0>> >>
          /\ tiles_processed = 0
          /\ progress = << >>
          /\ up_progress = <<10>>
          /\ output_file = None
          /\ pc = "failed" => up_error = "UpscalerError"

C10_Witness ==
    /\ pc = "failed"
    /\ <<0, 0>> \in failed
    /\ total_tiles > 1

\* ------------------------------------------------------------------------
\* Properties of the downloader (SpecDownload)
\* ------------------------------------------------------------------------

\* C6: in a call whose first two attempts fail and whose third succeeds, no
\* file exists at the target path after the first failed attempt nor after
\* the second, and when the call returns it has made three requests, raised
\* nothing, and the file holds exactly the remote size, which is the
\* announced content length when one was announced.
C6_ThirdAttemptSucceeds ==
    /\ (dl_pc = "get" /\ attempt \in {1, 2}) => files[dl_name] = NoFile
    /\ (dl_pc = "returned" /\ attempt = 2) =>
          /\ requests = 3
          /\ dl_error = None
          /\ dl_result = dl_name
          /\ files[dl_name] = remote.size
          /\ total_size > 0 => files[dl_name] = total_size

C6_Witness ==
    /\ dl_pc = "returned"
    /\ attempt = 2
    /\ total_size > block_size
    /\ files[dl_name] = total_size

\* C7: whenever download_model raises, the error is a NetworkError that
\* carries the lower-level failure, nothing is returned, and no file exists
\* at the target path afterwards.
C7_FailureLeavesNoFile ==
    /\ dl_error # None <=> dl_pc = "raised"
    /\ dl_pc = "raised" =>
          /\ dl_error = "NetworkError"
          /\ dl_cause # None
          /\ dl_result = None
          /\ files[dl_name] = NoFile

C7_Witness ==
    /\ dl_pc = "raised"
    /\ downloaded > 0
    /\ downloaded < remote.size
    /\ dl_cause = "ConnectionError"

\* C8: a call made while the target file exists makes no request, passes
\* exactly the value 100 to the callback (when one is given), returns the
\* path and leaves every file unchanged; the state it leaves allows the
\* same call again, with the same result.
C8_ExistingFileShortCircuit ==
    [][(Callable /\ files[dl_name'] # NoFile) =>
          /\ dl_pc' = "returned"
          /\ files' = files
          /\ requests' = 0
          /\ sleeps' = << >>
          /\ dl_callbacks' = (IF dl_cb' THEN <<100>> ELSE << >>)
          /\ dl_result' = dl_name'
          /\ dl_error' = None]_vars

C8_Witness ==
    /\ dl_pc = "returned"
    /\ requests = 0
    /\ dl_cb
    /\ dl_callbacks = <<100>>
    /\ files[dl_name] # NoFile
\* ------------------------------------------------------------------------
\* Properties of the model manager (SpecManager)
\* ------------------------------------------------------------------------

\* C3: over any sequence of load and unload calls at most one model handle
\* is alive, and while load(B) constructs B's architecture or reads B's
\* weights the manager holds no handle: the handle of the model loaded
\* before was released first.
C3_AtMostOneResident ==
    /\ ResidentHandles <= 1
    /\ m_pc \in {"load_build", "load_weights", "load_store"} =>
          /\ m_op.op = "load"
          /\ loaded_model = NoHandle
          /\ current_model_name = None
    /\ building # NoHandle =>
          /\ m_pc \in {"load_weights", "load_store"}
          /\ building.model = m_op.name

\* load(B) is reading B's weights, and A # B was loaded when it was called
C3_Witness ==
    /\ m_pc = "load_weights"
    /\ building.model = m_op.name
    /\ m_before[1] \notin {NoHandle, Deleted}
    /\ m_before[2] # m_op.name
    /\ m_builds = 1

\* C4: load(name) called right after a successful load(name) completes at
\* once: it constructs nothing, deserializes nothing, downloads nothing,
\* returns the handle the first call returned and changes neither the
\* manager's handle and model name nor the models directory.
C4_RepeatedLoadIsNoOp ==
    [][(/\ m_pc = "idle"
        /\ m_op.op = "load"
        /\ m_error = None
        /\ m_op' = m_op)
       => /\ m_pc' = "idle"
          /\ m_error' = None
          /\ m_ret' = m_ret
          /\ m_ret' = loaded_model
          /\ m_builds' = 0
          /\ m_loads' = 0
          /\ m_downloads' = 0
          /\ loaded_model' = loaded_model
          /\ current_model_name' = current_model_name
          /\ current_model_name' = m_op.name
          /\ building' = NoHandle
          /\ UNCHANGED <<files, requests, dl_pc>>]_vars

\* the second of two consecutive load(name) calls has returned
C4_Witness ==
    /\ m_pc = "idle"
    /\ m_op.op = "load"
    /\ m_error = None
    /\ m_before[1] \notin {NoHandle, Deleted}
    /\ m_before[2] = m_op.name
    /\ m_ret = m_before[1]
    /\ loaded_model = m_before[1]
    /\ m_builds = 0
    /\ m_loads = 0

\* C5: a load(name) call that fails raises ModelError and leaves the manager
\* Unloaded: no handle and no current model name.
C5_FailedLoadEndsUnloaded ==
    (m_pc = "idle" /\ m_op.op = "load" /\ m_error # None) =>
        /\ m_error = "ModelError"
        /\ loaded_model = NoHandle
        /\ current_model_name = None

\* ------------------------------------------------------------------------
\* Properties of the tile loop on realistic sizes (SpecGrid)
\* ------------------------------------------------------------------------
Scenario600x400 ==
    /\ w = 600
    /\ h = 400
    /\ tile_size = 256
    /\ tile_padding = 16
    /\ scale = 2

RowMajor3x2 ==
    << <<0, 0>>, <<256, 0>>, <<512, 0>>, <<0, 256>>, <<256, 256>>, <<512, 256>> >>

IsPrefix(a, b) == Len(a) <= Len(b) /\ a = SubSeq(b, 1, Len(a))

\* C11 as stated: for the 600 by 400 image with tile size 256, padding 16
\* and scale 2 the six tiles are visited in row-major order and the callback
\* receives 17, 33, 50, 67, 83, 100.
C11_ProgressAsStated ==
    (Scenario600x400 /\ TilingReturned) =>
        /\ visited = RowMajor3x2
        /\ progress = <<17, 33, 50, 67, 83, 100>>

\* C11 amended: for the 600 by 400 image with tile size 256, padding 16 and
\* scale 2 the six tiles are visited in row-major order and the callback
\* receives, one value after each tile, 16, 33, 50, 66, 83, 100: the
\* percentage tiles_processed / 6 * 100 rounded down.
C11_ProgressRoundedDown ==
    Scenario600x400 =>
        /\ IsPrefix(visited, RowMajor3x2)
        /\ IsPrefix(progress, <<16, 33, 50, 66, 83, 100>>)
        /\ Len(progress) = tiles_processed
        /\ pc = "tile" => Len(visited) = tiles_processed
        /\ TilingReturned =>
              /\ visited = RowMajor3x2
              /\ progress = <<16, 33, 50, 66, 83, 100>>

C11_Witness ==
    /\ Scenario600x400
    /\ pc = "done"
    /\ failed = {}
    /\ Len(visited) = 6
    /\ progress[1] = 16
    /\ progress[6] = 100

\* the core rectangle of the tile at (tx, ty)
core_w(tx) == Min(tile_size, w - tx)
core_h(ty) == Min(tile_size, h - ty)

\* C12: for every tile visited, the padded source rectangle lies inside the
\* image and contains the core rectangle; the crop taken from the scaled
\* tile output starts at (core origin - padded origin) * scale, lies inside
\* the scaled padded tile, and its extent is the core size times scale,
\* which is the extent of the destination rectangle.  For width 257, tile
\* size 256 and scale 4 the last column has core width 1 and its crop is 4
\* pixels wide.
C12_CropMatchesCore ==
    \A i \in 1..Len(visited) :
        LET tx == visited[i][1]
            ty == visited[i][2]
        IN  /\ 0 <= tile_x1(tx) /\ tile_x1(tx) <= tx
            /\ 0 <= tile_y1(ty) /\ tile_y1(ty) <= ty
            /\ tx + core_w(tx) <= tile_x2(tx) /\ tile_x2(tx) <= w
            /\ ty + core_h(ty) <= tile_y2(ty) /\ tile_y2(ty) <= h
            /\ core_w(tx) >= 1 /\ core_h(ty) >= 1
            /\ out_tile_x1(tx) = (tx - tile_x1(tx)) * scale
            /\ out_tile_y1(ty) = (ty - tile_y1(ty)) * scale
            /\ out_tile_x2(tx) <= input_tile_w(tx) * scale
            /\ out_tile_y2(ty) <= input_tile_h(ty) * scale
            /\ tile_part_w(tx) = core_w(tx) * scale
            /\ tile_part_h(ty) = core_h(ty) * scale
            /\ dest_w(tx) = tile_part_w(tx)
            /\ dest_h(ty) = tile_part_h(ty)
            /\ out_x1(tx) = tx * scale /\ out_y1(ty) = ty * scale
            /\ (w = 257 /\ tile_size = 256 /\ scale = 4 /\ tx = 256) =>
                  (core_w(tx) = 1 /\ tile_part_w(tx) = 4)

\* the last column of a 257 wide image has been placed, with padding
C12_Witness ==
    /\ w = 257
    /\ tile_size = 256
    /\ scale = 4
    /\ tile_padding = 16
    /\ pc = "done"
    /\ failed = {}
    /\ visited[2] = <<256, 0>>
    /\ tile_part_w(256) = 4
    /\ input_tile_w(256) = 17

CeilDiv(a, b) == IF a % b = 0 THEN a \div b ELSE a \div b + 1

\* the i-th grid cell in row-major order; it depends on W, H and T only
RowMajor(i) ==
    << ((i - 1) % CeilDiv(w, tile_size)) * tile_size,
       ((i - 1) \div CeilDiv(w, tile_size)) * tile_size >>

GridXs == {k * tile_size : k \in 0..((w - 1) \div tile_size)}
GridYs == {k * tile_size : k \in 0..((h - 1) \div tile_size)}

\* C13: the tiles are visited in row-major order (y outer, x inner), the
\* i-th tile visited being the i-th grid cell, which W, H and T determine;
\* no cell is visited twice; when the call returns the cells visited are
\* the cells with origins x in {0, T, 2T, ...} < W and y in {0, T, ...} < H,
\* ceil(W/T) * ceil(H/T) = total_tiles of them, a single one when T >= W
\* and T >= H.
C13_RowMajorOnce ==
    /\ \A i \in 1..Len(visited) : visited[i] = RowMajor(i)
    /\ \A i, j \in 1..Len(visited) : i # j => visited[i] # visited[j]
    /\ Len(visited) <= CeilDiv(w, tile_size) * CeilDiv(h, tile_size)
    /\ total_tiles = CeilDiv(w, tile_size) * CeilDiv(h, tile_size)
    /\ TilingReturned =>
          /\ Len(visited) = total_tiles
          /\ Range(visited) = GridXs \X GridYs
          /\ (tile_size >= w /\ tile_size >= h) => visited = << <<0, 0>> >>

\* a run over more than one row has returned
C13_Witness ==
    /\ pc = "done"
    /\ CeilDiv(w, tile_size) = 3
    /\ CeilDiv(h, tile_size) = 2
    /\ Len(visited) = 6
    /\ visited[3] = <<2 * tile_size, 0>>
    /\ visited[4] = <<0, tile_size>>

\* ------------------------------------------------------------------------
\* Further properties of the model manager (SpecManager)
\* ------------------------------------------------------------------------

\* C14: after an unload() call the manager is Unloaded: it has no handle and
\* no current model name; and an unload() call made while nothing is loaded
\* raises nothing and changes nothing.
C14_UnloadLeavesUnloaded ==
    (m_pc = "idle" /\ m_op.op = "unload") =>
        /\ loaded_model = NoHandle
        /\ current_model_name = None
        /\ (m_before[1] = NoHandle) =>
              /\ m_error = None
              /\ m_before[2] = None

\* C15: from its entry to its end, whether it returns or raises, a
\* download_model call of the manager leaves the handle and the current
\* model name as they were when it was called, in every lifecycle state.
C15_DownloadKeepsLifecycle ==
    m_op.op = "download" =>
        /\ loaded_model = m_before[1]
        /\ current_model_name = m_before[2]
        /\ building = NoHandle

\* a download that fetched the file and returned while another model was loaded
C15_Witness ==
    /\ m_pc = "idle"
    /\ m_op.op = "download"
    /\ m_downloads = 1
    /\ m_error = None
    /\ dl_pc = "returned"
    /\ requests > 0
    /\ Held
    /\ current_model_name # m_op.name

\* C16: whatever the architecture, a load that found both the EMA and the
\* standard parameter set in the weight file gave the model the EMA set,
\* and gave it the standard set only when the file held no EMA set.
C16_EmaPreferred ==
    (m_pc = "load_store") =>
        /\ (loadnet.ema /\ loadnet.params) => building.weights = "params_ema"
        /\ (building.weights = "params") => ~loadnet.ema

\* ------------------------------------------------------------------------
\* Properties of upscale_image as its caller sees it (SpecTiling)
\* ------------------------------------------------------------------------
ErrorKinds == {"ModelError", "ImageProcessingError", "NetworkError"}

\* C17: every error that leaves a core operation (the tiling, upscale_image,
\* the downloader, the model manager) is a ModelError, an
\* ImageProcessingError or a NetworkError.
C17_ThreeErrorKinds ==
    /\ error \in ErrorKinds \cup {None}
    /\ up_error \in ErrorKinds \cup {None}
    /\ dl_error \in ErrorKinds \cup {None}
    /\ m_error \in ErrorKinds \cup {None}

\* C18: every value upscale_image passes to its caller's progress callback
\* lies in 0..100, the values of one call never decrease, 100 is passed only
\* once the output image has been saved, and a call that returns has passed
\* 100 last.
C18_UpscaleProgress ==
    /\ \A i \in 1..Len(up_progress) : up_progress[i] \in 0..100
    /\ \A i, j \in 1..Len(up_progress) : i < j => up_progress[i] <= up_progress[j]
    /\ (\E i \in 1..Len(up_progress) : up_progress[i] = 100) => pc = "done"
    /\ pc = "done" =>
          /\ up_progress[Len(up_progress)] = 100
          /\ output_file = output
          /\ Len(up_progress) = total_tiles + 2
    /\ pc \in {"tile", "tiling_returned"} => Len(up_progress) = tiles_processed + 1

\* a call over several tiles has returned
C18_Witness ==
    /\ pc = "done"
    /\ total_tiles = 9
    /\ up_progress[1] = 10
    /\ up_progress[2] = 18
    /\ up_progress[10] = 90
    /\ up_progress[11] = 100

\* ------------------------------------------------------------------------
\* Properties of upscale_batch (SpecBatch)
\* ------------------------------------------------------------------------

\* C19: with a callback, upscale_batch over n images reports
\* (floor(100*i/n), i, n) before image i, for i = 0..n-1 in order, and
\* (100, n, n) once after the last image; the percents never decrease, lie
\* in 0..100 and end at 100; for n = 0 the only report is (100, 0, 0), the
\* empty list is returned and nothing is raised.
C19_BatchReports ==
    b_cb =>
        /\ \A k \in 1..Len(batch_reports) :
              \/ /\ k <= total_images
                 /\ batch_reports[k] = <<(100 * (k - 1)) \div total_images, k - 1,
                                         total_images>>
              \/ /\ k = total_images + 1
                 /\ b_pc = "returned"
                 /\ batch_reports[k] = <<100, total_images, total_images>>
        /\ \A j, k \in 1..Len(batch_reports) :
              j < k => batch_reports[j][1] <= batch_reports[k][1]
        /\ b_pc = "returned" => Len(batch_reports) = total_images + 1
        /\ (b_pc = "returned" /\ total_images = 0) =>
              /\ batch_reports = << <<100, 0, 0>> >>
              /\ b_error = None
        /\ (b_pc = "returned" /\ total_images = 0) => Len(b_result) = 0

\* ------------------------------------------------------------------------
\* Progress of a download (SpecDownload)
\* ------------------------------------------------------------------------
\* bytes received once k chunks are written
bytesReceived(k) == Min(k * block_size, remote.size)

\* C20: in a download that reads the body, with a callback: when the
\* content length is known and positive the callback is given
\* floor(100 * bytesReceived / total) after every chunk written, the values
\* never decrease, never exceed 100, and the last one of a download that
\* succeeds is 100; when the content length is unknown (0) the callback is
\* not called while the body is read and is called exactly once, with 100,
\* when the whole file is written.
C20_DownloadReports ==
    (dl_cb /\ requests > 0 /\ dl_pc \in {"stream", "returned"}) =>
        LET chunks == CeilDiv(downloaded, block_size)
            n == Len(dl_callbacks)
        IN  IF total_size > 0
            THEN /\ n = chunks + (IF dl_pc = "returned" THEN 1 ELSE 0)
                 /\ \A k \in 1..chunks :
                        dl_callbacks[k] = (100 * bytesReceived(k)) \div total_size
                 /\ \A k \in 1..n : dl_callbacks[k] <= 100
                 /\ \A j, k \in 1..n : j < k => dl_callbacks[j] <= dl_callbacks[k]
                 /\ dl_pc = "returned" => dl_callbacks[n] = 100
            ELSE /\ dl_pc = "stream" => n = 0
                 /\ dl_pc = "returned" =>
                        /\ dl_callbacks = <<100>>
                        /\ files[dl_name] = remote.size

\* ------------------------------------------------------------------------
\* The retry loop of download_model (SpecDownload)
\* ------------------------------------------------------------------------

\* C22: a download_model call makes at most 3 attempts; it has waited 2
\* seconds after the first failed attempt and 4 seconds after the second
\* and never otherwise; once an attempt has succeeded no further attempt is
\* made; and the third failed attempt raises without a wait.
C22_RetrySchedule ==
    /\ requests <= 3
    /\ IsPrefix(sleeps, <<2, 4>>)
    /\ dl_pc = "get" => requests = Len(sleeps)
    /\ dl_pc \in {"open", "stream"} => requests = Len(sleeps) + 1
    /\ (dl_pc = "returned" /\ requests > 0) => requests = Len(sleeps) + 1
    /\ (dl_pc = "raised" /\ caught = None) => requests = Len(sleeps) + 1
    /\ (dl_pc = "raised" /\ caught # None) =>
          /\ requests = 3
          /\ sleeps = <<2, 4>>

C22_Witness ==
    /\ dl_pc = "raised"
    /\ caught = "Timeout"
    /\ requests = 3
    /\ sleeps = <<2, 4>>

\* C23: when download_model raises because of a connection error or a
\* timeout, whether it struck while connecting or while the body was being
\* streamed, three attempts have been made and have failed.
C23_RetryCoversStream ==
    (dl_pc = "raised" /\ dl_cause \in {"ConnectionError", "Timeout"}) =>
        /\ requests = 3
        /\ sleeps = <<2, 4>>

\* C27: an attempt answered with an HTTP client error (4xx) ends the call:
\* one attempt was made, no backoff delay was waited for, and NetworkError
\* is raised.
C27_ClientErrorNotRetried ==
    caught = "HTTPError4xx" =>
        /\ dl_pc = "raised"
        /\ dl_error = "NetworkError"
        /\ requests = 1
        /\ sleeps = << >>

\* ------------------------------------------------------------------------
\* Progress of the tile loop (SpecGrid)
\* ------------------------------------------------------------------------

\* C24: when process_image_with_tiling returns a canvas the callback has
\* been called exactly once per tile, skipped tiles included; the k-th
\* value is floor(100 * k / total_tiles), the values never decrease, lie in
\* 0..100, and the last one is 100.
C24_TileProgress ==
    pc = "tiling_returned" =>
        /\ Len(progress) = total_tiles
        /\ Len(visited) = total_tiles
        /\ \A k \in 1..Len(progress) :
              /\ progress[k] = (100 * k) \div total_tiles
              /\ progress[k] \in 0..100
        /\ \A j, k \in 1..Len(progress) : j < k => progress[j] <= progress[k]
        /\ progress[total_tiles] = 100

\* ------------------------------------------------------------------------
\* Failures inside a batch (SpecBatch)
\* ------------------------------------------------------------------------

\* C25: a failure of upscale_image on one image does not abort
\* upscale_batch: the call never raises once the loop has started, every
\* image is processed whether earlier ones failed or not, and the list
\* returned holds the outputs of the images that succeeded, in input order,
\* its length plus the number of failed images being the number of inputs.
C25_FailureDoesNotAbort ==
    /\ b_pc = "raised" => (b_i = 0 /\ failed_images = 0)
    /\ Len(output_paths) = successful_images
    /\ successful_images + failed_images = b_i
    /\ \A k \in 1..Len(output_paths) : output_paths[k] \in 0..(b_i - 1)
    /\ \A j, k \in 1..Len(output_paths) : j < k => output_paths[j] < output_paths[k]
    /\ b_pc = "returned" =>
          /\ b_i = total_images
          /\ b_error = None
          /\ b_result = output_paths
          /\ Len(b_result) + failed_images = total_images

C25_Witness ==
    /\ b_pc = "returned"
    /\ total_images = 3
    /\ failed_images = 1
    /\ b_result = <<0, 2>>

\* ------------------------------------------------------------------------
\* Consistency of the manager's two fields (SpecManager)
\* ------------------------------------------------------------------------

\* C26: between calls, after any sequence of load_model, unload_model and
\* download_model calls, failed ones included, the attribute loaded_model
\* exists, it is None exactly when current_model_name is None, and a handle
\* that is held is the handle of the model current_model_name names.
C26_HandleMatchesName ==
    m_pc = "idle" =>
        /\ loaded_model # Deleted
        /\ loaded_model = NoHandle <=> current_model_name = None
        /\ Held => loaded_model.model = current_model_name

\* ------------------------------------------------------------------------
\* Errors of load_image and save_image (SpecFiles)
\* ------------------------------------------------------------------------
\* the directories on the way to the file of a path
Parents(path) == {SubSeq(path, 1, k) : k \in 1..(Len(path) - 1)}

\* C21: load_image of a path that does not exist, or whose file is not
\* identified as an image or is corrupt, raises ImageProcessingError and
\* returns nothing; save_image to a path whose directory is missing or
\* takes no new file raises ImageProcessingError; and when the parent
\* directories of the target are missing and can be created, save_image
\* creates them all and writes the file there.
C21_ImageFileErrors ==
    /\ (ip_op.op = "load_image" /\ ip_before[2][ip_op.path] # "image") =>
          /\ ip_error = "ImageProcessingError"
          /\ ip_result = None
    /\ (ip_op.op = "save_image" /\ ~CanWrite(fs_dirs, ip_op.path)) =>
          /\ ip_error = "ImageProcessingError"
          /\ ip_result = None
          /\ fs_files = ip_before[2]
    /\ (/\ ip_op.op = "save_image"
        /\ Parents(ip_op.path) # {}
        /\ Creatable(ip_before[1], dirname(ip_op.path))
        /\ dirname(ip_op.path) \notin fs_readonly) =>
          /\ Parents(ip_op.path) \subseteq fs_dirs
          /\ ip_error = None
          /\ fs_files[ip_op.path] = "image"

C21_Witness ==
    /\ ip_op = [op |-> "save_image", path |-> <<"out", "run", "in.png">>]
    /\ ip_before[1] = {<< >>}
    /\ fs_dirs = {<< >>, <<"out">>, <<"out", "run">>}
    /\ ip_error = None
    /\ fs_files[ip_op.path] = "image"

\* ------------------------------------------------------------------------
\* upscale_image and the model manager (SpecPipeline)
\* ------------------------------------------------------------------------

\* C29: upscale_image with a model id that is not configured raises
\* UpscalerError without a call to the model manager: nothing is loaded,
\* unloaded, built or downloaded, the handle and the model name the manager
\* held before the call are the ones it holds after it, and no output file
\* is written.
C29_UnknownModelTouchesNothing ==
    u_name \in ModelNames \ Configured =>
        /\ u_mcalls = 0
        /\ m_pc = "idle"
        /\ m_op.op = None
        /\ loaded_model = u_before[1]
        /\ current_model_name = u_before[2]
        /\ files = u_before[3]
        /\ u_builds + u_loads + u_downloads = 0
        /\ u_outputs = {}
        /\ u_i > 0 => u_error = "UpscalerError"

C29_Witness ==
    /\ u_name = "nonexistent_model"
    /\ u_i = 1
    /\ u_error = "UpscalerError"
    /\ loaded_model = [model |-> "realesrgan-x4plus", weights |-> "params_ema"]
    /\ current_model_name = "realesrgan-x4plus"

\* what the batch has attempted so far, the load_model call in progress
\* included
BuildsSoFar == u_builds + (IF u_pc = "loading" THEN m_builds ELSE 0)
LoadsSoFar == u_loads + (IF u_pc = "loading" THEN m_loads ELSE 0)
DownloadsSoFar == u_downloads + (IF u_pc = "loading" THEN m_downloads ELSE 0)

\* C30 as stated: during one upscale_batch call with one model name the
\* model is constructed at most once, its weights are deserialized at most
\* once and a download is started at most once, whatever the outcome of
\* each image.
C30_LoadedOncePerBatch ==
    /\ BuildsSoFar <= 1
    /\ LoadsSoFar <= 1
    /\ DownloadsSoFar <= 1

\* C30 amended: as long as no load_model call of the batch has failed, the
\* model is constructed at most once, its weights are deserialized at most
\* once and a download is started at most once, whatever the outcome of
\* processing each image; an image that follows a successful load reuses
\* its handle: its load_model call builds, reads and downloads nothing and
\* returns that handle.
C30_LoadedOnceUnlessLoadFails ==
    /\ u_load_failures = 0 =>
          /\ BuildsSoFar <= 1
          /\ LoadsSoFar <= 1
          /\ DownloadsSoFar <= 1
    /\ (u_pc = "loading" /\ u_handle # NoHandle) =>
          /\ m_builds = 0
          /\ m_loads = 0
          /\ m_downloads = 0
          /\ m_pc = "idle"
          /\ m_error = None
          /\ m_ret = u_handle

C30_Witness ==
    /\ u_pc = "done"
    /\ u_n = 3
    /\ u_load_failures = 0
    /\ u_failed = 1
    /\ u_outputs = {0, 2}
    /\ u_builds = 1
    /\ u_loads = 1
    /\ u_downloads = 1

\* ------------------------------------------------------------------------
\* Properties of the main window (SpecWindow)
\* ------------------------------------------------------------------------
\* C28: at most one worker thread is inside its Upscaler call at any time;
\* while one is, or while its finished/error signal has not been delivered
\* yet, every button is disabled, and a step that enables a button while an
\* operation is pending is the slot of that operation's finished or error
\* signal
InFlight == Len(threads) + Len(signals)
OneWorker ==
    /\ Len(threads) <= 1
    /\ InFlight <= 1
    /\ InFlight = 1 => \A b \in Buttons : ~enabled[b]
ReEnabledBySlotOnly ==
    (InFlight > 0 /\ \E b \in Buttons : ~enabled[b] /\ enabled'[b])
        => /\ signals # << >>
           /\ signals' = Tail(signals)
           /\ last_handler' = Slot(Head(signals))
C28_OneWorkerAtATime == []OneWorker /\ [][ReEnabledBySlotOnly]_vars

\* a second operation is running after the first one's slot re-enabled the
\* buttons, with an image and a batch selected and another model chosen in
\* the combo box than the one the worker was given
C28_Witness ==
    /\ Len(threads) = 1
    /\ last_handler # None
    /\ current_image_path # None
    /\ batch_image_paths # << >>
    /\ combo_data # threads[1].model_name

====
